---- MODULE Spec2Model ----
(***************************************************************************)
(* Pulse: the call engine (call_engine/engine.rs), the orchestrator        *)
(* (lib.rs) and the signaling client's registration handshake              *)
(* (signaling/client.rs) as state machines.                                *)
(*                                                                         *)
(* The engine's shared fields are three mutexes (state, peer_connection,   *)
(* audio_handler) and a broadcast sender.  The commands run as tasks of a  *)
(* multi-threaded runtime, so one step of the model is one lock            *)
(* acquisition, one event send or one awaited RTC operation.               *)
(***************************************************************************)
EXTENDS Integers, Sequences, FiniteSets, TLC

\* ------------------------------------------------------------------ bounds
MaxOps == 2          \* operations invoked in one behaviour
MaxRtc == 1          \* connection-state reports of the RTC layer
MaxIce == 1          \* locally gathered ICE candidates
MaxConnects == 1     \* runs of the connect_and_register command
MaxReconnects == 2   \* runs of connect_and_register where the user reconnects
MaxReconnectTicks == 2  \* heartbeat ticks where the user reconnects
MaxServerMsgs == 2   \* messages the signaling server sends
MaxTicks == 102      \* ticks of the heartbeat interval
MaxWrites == 3       \* frames the socket takes from the write task
MaxFinds == 2        \* runs of the find_user command
MaxCaptureOps == 4   \* capture callbacks, read_frame and set_muted calls
MaxPlaybackOps == 3  \* write_samples calls and playback callbacks
MaxLoads == 6        \* load_or_create calls and removals of the key file

\* ------------------------------------------------------- program constants
OutboundCapacity == 100   \* mpsc::channel::<String>(100)

Peers == {"p1", "p2"}
Usernames == {"bob"}
Procs == {"t1", "t2"}         \* the tasks that run operations concurrently

\* --------------------------------------------------------------- CallState
Idle == [tag |-> "Idle"]
Calling(p) == [tag |-> "Calling", peer_id |-> p]
Ringing(p, u) == [tag |-> "Ringing", peer_id |-> p, username |-> u]
Connecting(p) == [tag |-> "Connecting", peer_id |-> p]
Connected(p) == [tag |-> "Connected", peer_id |-> p]
Ended == [tag |-> "Ended"]
None == [tag |-> "None"]      \* no call state: Option::None

CallStates ==
    {Idle, Ended}
        \cup {Calling(p) : p \in Peers}
        \cup {Ringing(p, u) : p \in Peers, u \in Usernames}
        \cup {Connecting(p) : p \in Peers}
        \cup {Connected(p) : p \in Peers}

\* ---------------------------------------------------------------- CallEvent
StateChanged(s) == [type |-> "StateChanged", state |-> s]
IceCandidate(c) == [type |-> "IceCandidate", candidate |-> c]

\* ------------------------------------------------------------------ Result
NoRes == [status |-> "none"]
Ok(v) == [status |-> "Ok", value |-> v]
Err(e) == [status |-> "Err", error |-> e]

VARIABLES
    state,            \* CallEngine.state
    peer_connection,  \* CallEngine.peer_connection: 0 is None, else a pc id
    audio_handler,    \* CallEngine.audio_handler: 0 is None, else the handler's id
    event_tx,         \* CallEngine.event_tx: how many events were sent, and
                      \* the state of the last StateChanged among them
    pcs,              \* the peer connections created so far, by id
    cb,               \* the connection-state callback in progress
    timers,           \* Idle timers spawned by end_call: sleeping, and written
    procs,            \* the tasks running commands and signaling events
    signaling,        \* AppState.signaling: "None" or "Some"
    outbound,         \* what was enqueued on the client's outbound channel
    loops,            \* the call-event loops spawned so far: for each, the
                      \* IceCandidate events it has not received yet
    used,             \* what the environment has spent of its budgets
    client_state,     \* SignalingClient.state: is_connected, peer_id, username
    signaling_event_tx, \* SignalingClient.event_tx: the events sent, in order
    reg_rx,           \* the registration channel (capacity 1)
    ws_read,          \* frames from the server the read task has not read
    ws_write,         \* frames the write task has written to the socket
    conn,             \* the task running SignalingClient::connect_and_register
    reader,           \* the read task
    writer,           \* the write task: "none", "running" or "stopped"
    ws_sent,          \* every frame the server has sent on the socket
    heartbeat,        \* the heartbeat tasks spawned so far
    audio,            \* an AudioHandler: its devices, streams, ring buffers,
                      \* mute flag and input level, and what its last
                      \* read_frame and playback callback produced
    keystore,         \* the key file, and what load_or_create has done
    json,             \* a JSON value and what was computed from it
    selection,        \* a device's configurations and the one selected
    bus               \* a broadcast channel and the loop that receives from it

vars ==
    <<state, peer_connection, audio_handler, event_tx, pcs, cb, timers, procs,
      signaling, outbound, loops, used, client_state, signaling_event_tx,
      reg_rx, ws_read, ws_write, conn, reader, writer, ws_sent, heartbeat,
      audio, keystore, json, selection, bus>>

engine == <<state, peer_connection, audio_handler, event_tx>>
client ==
    <<client_state, signaling_event_tx, reg_rx, ws_read, ws_write, conn, reader,
      writer, ws_sent>>
orch == <<signaling, outbound, loops, client, heartbeat>>

\* What no step of a call or of the signaling client touches.
offcall == <<audio, keystore, json, selection, bus>>

\* event_tx.send(e): one more event sent; a StateChanged becomes the last one.
Send(e) ==
    [sent |-> event_tx.sent + 1,
     last |-> IF e.type = "StateChanged" THEN e.state ELSE event_tx.last]

\* ------------------------------------------------------------- task records
\* pc: where the task is; op, peer: the operation and its peer argument;
\* pend: the argument of the set_state call in progress; mypc: the task's own
\* peer connection; res: what the engine operation returned; cmd: what the
\* command returned.  Three fields only record history: saw (the call state
\* the guard read), sent (the states this operation has emitted) and quiet
\* (nothing but this operation has written an engine field since it began).
IdleProc ==
    [pc |-> "idle", op |-> "none", peer |-> "", pend |-> Idle, mypc |-> 0,
     res |-> NoRes, cmd |-> NoRes, quiet |-> FALSE, sent |-> <<>>, saw |-> None]

Begin(o, p) ==
    [IdleProc EXCEPT !.op = o, !.peer = p, !.quiet = TRUE]

Free(t) == procs[t].pc \in {"idle", "done"}

\* The operations of the signaling-event loop, which handles one event at a
\* time (lib.rs 132-134).
SigOps ==
    {"IncomingCall", "AnswerReceived", "IceCandidateReceived", "CallRejected",
     "CallEnded"}

\* The peers an operation may name.  Peers are interchangeable, so the first
\* operation of a behaviour names p1.
PeersNow == IF used.ops = 0 THEN {"p1"} ELSE Peers

\* Task t may begin a command: the tasks are interchangeable, so a new
\* operation takes t1 whenever t1 is free.
CommandReady(t) ==
    /\ Free(t) /\ used.ops < MaxOps
    /\ t = "t2" => ~Free("t1")

\* Task t may handle the next signaling event: a client has been created and
\* the loop is not inside handle_signaling_event.
SigReady(t) ==
    /\ CommandReady(t) /\ used.connects > 0
    /\ \A q \in Procs : Free(q) \/ procs[q].op \notin SigOps

\* A step of task t that only changes t's own locals.
Local(t, r) == [procs EXCEPT ![t] = r]

\* A step of task t that writes a field of the engine: every other task that
\* has begun an operation has now been interfered with.
Wrote(t, r) ==
    [q \in Procs |->
        IF q = t THEN r
        ELSE IF procs[q].pc = "idle" THEN procs[q]
        ELSE [procs[q] EXCEPT !.quiet = FALSE]]

\* A write to the engine by a callback or a timer.
Disturbed ==
    [q \in Procs |->
        IF procs[q].pc = "idle" THEN procs[q]
        ELSE [procs[q] EXCEPT !.quiet = FALSE]]

Spend(what) == [used EXCEPT ![what] = @ + 1]

\* AudioHandler before init_audio has made one: no device, no stream,
\* empty ring buffers.
NoHandler ==
    [input_device |-> "missing", output_device |-> "missing",
     input_stream |-> FALSE, output_stream |-> FALSE,
     input_rate |-> 0, output_rate |-> 0,
     capture_buffer |-> <<>>, playback_buffer |-> <<>>,
     is_muted |-> FALSE, input_level |-> 0,
     init |-> NoRes, frame |-> NoRes, out |-> <<>>,
     captured |-> 0, written |-> 0]

\* No key file and no call of load_or_create yet.
NoFile == [encoding |-> "absent", bytes |-> 0, key |-> "none"]
NoKeys == [file |-> NoFile, result |-> NoRes, generated |-> 0, writes |-> 0]

\* No JSON value and no configuration list given yet.
NoJson == [given |-> FALSE]
NoSelection == [given |-> FALSE]

\* No broadcast channel under observation.
NoBus == [loop |-> "none"]

\* The state of everything a call and the signaling client use.
InitCall ==
    /\ state = Idle
    /\ peer_connection = 0
    /\ audio_handler = 0
    /\ event_tx = [sent |-> 0, last |-> None]
    /\ pcs = <<>>
    /\ cb = [pc |-> "idle"]
    /\ timers = [sleeping |-> 0, written |-> 0]
    /\ procs = [t \in Procs |-> IdleProc]
    /\ signaling = "None"
    /\ outbound = <<>>
    /\ loops = <<>>
    /\ used = [ops |-> 0, rtc |-> 0, ice |-> 0, connects |-> 0, srv |-> 0,
                ticks |-> 0, replies |-> 0, writes |-> 0, finds |-> 0,
                capture |-> 0, playback |-> 0, loads |-> 0]
    /\ client_state = [is_connected |-> FALSE, peer_id |-> "", username |-> ""]
    /\ signaling_event_tx = <<>>
    /\ reg_rx = <<>>
    /\ ws_read = <<>>
    /\ ws_write = <<>>
    /\ conn = [pc |-> "idle", username |-> "", reply |-> NoRes, result |-> NoRes,
               stored |-> FALSE]
    /\ reader = [pc |-> "none"]
    /\ writer = "none"
    /\ ws_sent = <<>>
    /\ heartbeat = <<>>

Init ==
    /\ InitCall
    /\ audio = NoHandler
    /\ keystore = NoKeys
    /\ json = NoJson
    /\ selection = NoSelection
    /\ bus = NoBus

\* ------------------------------------------------- start_call / accept_call
\* A guard that would also let a call start from Ended.
StartCallAdmits_AlsoEnded(s) == s.tag \in {"Idle", "Ended"}

\* engine.rs 171: `*state != CallState::Idle` refuses.
StartCallAdmits(s) == s = Idle

\* engine.rs 232-236: Ringing and Idle pass, everything else refuses.
AcceptCallAdmits(s) == s.tag \in {"Ringing", "Idle"}

\* The first lock of start_call: the guard.
StartCallGuard(t, p) ==
    /\ CommandReady(t)
    /\ used' = Spend("ops")
    /\ IF StartCallAdmits(state)
       THEN procs' = Local(t, [Begin("start_call", p) EXCEPT
                                  !.pc = "set_state", !.pend = Calling(p),
                                  !.saw = state])
       ELSE procs' = Local(t, [Begin("start_call", p) EXCEPT
                                  !.pc = "done", !.res = Err("AlreadyInCall"),
                                  !.cmd = Err("AlreadyInCall")])
    /\ UNCHANGED <<engine, pcs, cb, timers, orch, offcall>>

\* The first lock of accept_call: the guard.
AcceptCallGuard(t, p) ==
    /\ CommandReady(t)
    /\ used' = Spend("ops")
    /\ IF AcceptCallAdmits(state)
       THEN procs' = Local(t, [Begin("accept_call", p) EXCEPT
                                  !.pc = "set_state", !.pend = Connecting(p),
                                  !.saw = state])
       ELSE procs' = Local(t, [Begin("accept_call", p) EXCEPT
                                  !.pc = "done", !.res = Err("AlreadyInCall"),
                                  !.cmd = Err("AlreadyInCall")])
    /\ UNCHANGED <<engine, pcs, cb, timers, orch, offcall>>

\* ---------------------------------------------------------------- set_state
EndCallOps == {"reject_call", "hangup", "CallRejected", "CallEnded"}

\* engine.rs 572: `*self.state.lock() = new_state.clone()`.
SetStateWrite(t) ==
    /\ procs[t].pc = "set_state"
    /\ state' = procs[t].pend
    /\ procs' = Wrote(t, [procs[t] EXCEPT !.pc = "emit"])
    /\ UNCHANGED <<peer_connection, audio_handler, event_tx, pcs, cb, timers,
                   orch, used, offcall>>

\* Where a task goes on once set_state has returned.
AfterSetState(r) ==
    CASE r.op \in {"start_call", "accept_call"} -> [r EXCEPT !.pc = "negotiate"]
      [] r.op \in {"reject_call", "hangup"} ->
            [r EXCEPT !.pc = "send", !.res = Ok(0)]
      [] OTHER -> [r EXCEPT !.pc = "done", !.res = Ok(0), !.cmd = Ok(0)]

\* engine.rs 573: `event_tx.send(StateChanged(new_state))`.  In end_call the
\* Idle timer is spawned next (engine.rs 350-356) and end_call returns.
SetStateEmit(t) ==
    /\ procs[t].pc = "emit"
    /\ event_tx' = Send(StateChanged(procs[t].pend))
    /\ timers' = IF procs[t].op \in EndCallOps
                 THEN [timers EXCEPT !.sleeping = @ + 1]
                 ELSE timers
    /\ procs' = Local(t, AfterSetState([procs[t] EXCEPT
                                           !.sent = Append(@, procs[t].pend)]))
    /\ UNCHANGED <<state, peer_connection, audio_handler, pcs, cb, orch, used,
                   offcall>>

\* ------------------------------------------------ the awaited RTC operations
NewPc(r) ==
    [role |-> IF r.op = "start_call" THEN "offerer" ELSE "answerer",
     peer |-> r.peer, local |-> 0, remote |-> FALSE, conn |-> "open"]

\* The SDP that create_offer / create_answer of peer connection id yields.
Sdp(id) == id

\* The errors the `?` operators of the negotiation can return.
NegotiateErrors(r) ==
    IF r.op = "accept_call" THEN {"InvalidSdp", "WebRTC"} ELSE {"WebRTC"}

\* engine.rs 182-209 (create_peer_connection, add_track, create_offer,
\* set_local_description) and 245-280 (create_peer_connection, offer parse,
\* set_remote_description, add_track, create_answer, set_local_description):
\* awaited operations on the task's own new connection, none of which touches
\* the engine's fields.  Any of them may fail and `?` returns the error.
Negotiate(t) ==
    /\ procs[t].pc = "negotiate"
    /\ \/ /\ pcs' = Append(pcs, [NewPc(procs[t]) EXCEPT
                                    !.local = Sdp(Len(pcs) + 1),
                                    !.remote = (procs[t].op = "accept_call")])
          /\ procs' = Local(t, [procs[t] EXCEPT
                                   !.pc = "store_pc", !.mypc = Len(pcs) + 1])
       \/ /\ \E e \in NegotiateErrors(procs[t]) :
                procs' = Local(t, [procs[t] EXCEPT
                                      !.pc = "done", !.res = Err(e),
                                      !.cmd = Err(e)])
          /\ UNCHANGED pcs
    /\ UNCHANGED <<engine, cb, timers, orch, used, offcall>>

\* A start_call / accept_call that would not store its connection.
StorePeerConnection_Skips(t) ==
    /\ procs[t].pc = "store_pc"
    /\ procs' = Local(t, [procs[t] EXCEPT !.pc = "init_audio"])
    /\ UNCHANGED <<engine, pcs, cb, timers, orch, used, offcall>>

\* engine.rs 212 / 283: `*self.peer_connection.lock() = Some(pc)`.
StorePeerConnection(t) ==
    /\ procs[t].pc = "store_pc"
    /\ peer_connection' = procs[t].mypc
    /\ procs' = Wrote(t, [procs[t] EXCEPT !.pc = "init_audio"])
    /\ UNCHANGED <<state, audio_handler, event_tx, pcs, cb, timers, orch, used,
                   offcall>>

\* What start_call / accept_call return when init_audio succeeded.
ReturnedSdp(r) == pcs[r.mypc].local

\* engine.rs 558-568 and 215-217 / 286-288: init_audio()? then Ok(sdp).  The
\* handler is stored only when both streams started.
InitAudio(t) ==
    /\ procs[t].pc = "init_audio"
    /\ \/ /\ audio_handler' = procs[t].mypc
          /\ procs' = Wrote(t, [procs[t] EXCEPT
                                   !.pc = IF procs[t].op = "start_call"
                                          THEN "check_sender" ELSE "send",
                                   !.res = Ok(ReturnedSdp(procs[t]))])
       \/ /\ procs' = Local(t, [procs[t] EXCEPT
                                   !.pc = "done", !.res = Err("Audio"),
                                   !.cmd = Err("Audio")])
          /\ UNCHANGED audio_handler
    /\ UNCHANGED <<state, peer_connection, event_tx, pcs, cb, timers, orch, used,
                   offcall>>

\* ----------------------------------------------------- end_call, reject_call
\* engine.rs 335-337: `self.audio_handler.lock().take()` and stop.
TakeAudio(t, r) ==
    /\ audio_handler' = 0
    /\ procs' = Wrote(t, [r EXCEPT !.pc = "take_pc", !.pend = Ended])
    /\ UNCHANGED <<state, peer_connection, event_tx, pcs, cb, timers, orch,
                   offcall>>

\* An end_call that would leave the stored connection in place.
EndCallTakePc_Keeps(t) ==
    /\ procs[t].pc = "take_pc"
    /\ procs' = Local(t, [procs[t] EXCEPT !.pc = "set_state"])
    /\ UNCHANGED <<engine, pcs, cb, timers, orch, used, offcall>>

\* engine.rs 340-344: `self.peer_connection.lock().take()`; the taken
\* connection is closed by a spawned task.
EndCallTakePc(t) ==
    /\ procs[t].pc = "take_pc"
    /\ peer_connection' = 0
    /\ pcs' = IF peer_connection = 0 THEN pcs
              ELSE [pcs EXCEPT ![peer_connection] = [@ EXCEPT !.conn = "closing"]]
    /\ procs' = Wrote(t, [procs[t] EXCEPT !.pc = "set_state"])
    /\ UNCHANGED <<state, audio_handler, event_tx, cb, timers, orch, used,
                   offcall>>

\* lib.rs 416-433: the reject_call command; engine.rs 328-330: reject_call
\* is end_call.
RejectCall(t, p) ==
    /\ CommandReady(t)
    /\ used' = Spend("ops")
    /\ TakeAudio(t, Begin("reject_call", p))

\* lib.rs 437-446: the hangup command reads the peer from the call state.
Hangup(t) ==
    /\ CommandReady(t)
    /\ used' = Spend("ops")
    /\ IF state.tag \in {"Connected", "Calling", "Connecting", "Ringing"}
       THEN procs' = Local(t, [Begin("hangup", state.peer_id) EXCEPT
                                  !.pc = "take_audio"])
       ELSE procs' = Local(t, [Begin("hangup", "") EXCEPT
                                  !.pc = "done", !.cmd = Err("No active call")])
    /\ UNCHANGED <<engine, pcs, cb, timers, orch, offcall>>

\* lib.rs 448: the hangup command's end_call.
HangupEndCall(t) ==
    /\ procs[t].pc = "take_audio"
    /\ TakeAudio(t, procs[t])
    /\ UNCHANGED used

\* A handler that would not tell the engine about an incoming call.
OnIncomingCall_Ignored(t, p, u) ==
    /\ SigReady(t)
    /\ used' = Spend("ops")
    /\ procs' = Local(t, [Begin("IncomingCall", p) EXCEPT !.pc = "done"])
    /\ UNCHANGED <<engine, pcs, cb, timers, orch, offcall>>

\* ------------------------------------------------- the signaling-event loop
\* lib.rs 585-603 and engine.rs 385-387: register_incoming_call is an
\* unguarded set_state(Ringing).
OnIncomingCall(t, p, u) ==
    /\ SigReady(t)
    /\ used' = Spend("ops")
    /\ state' = Ringing(p, u)
    /\ procs' = Wrote(t, [Begin("IncomingCall", p) EXCEPT
                             !.pc = "emit", !.pend = Ringing(p, u)])
    /\ UNCHANGED <<peer_connection, audio_handler, event_tx, pcs, cb, timers, orch,
                   offcall>>

\* lib.rs 628-644: CallRejected and CallEnded call end_call whoever sent them.
OnCallOver(t, kind, by) ==
    /\ SigReady(t)
    /\ used' = Spend("ops")
    /\ TakeAudio(t, Begin(kind, by))

\* A handle_answer / add_ice_candidate that would report success when no
\* connection is stored.
ReadPeerConnection_Proceeds(t, kind, from) ==
    /\ SigReady(t)
    /\ used' = Spend("ops")
    /\ IF peer_connection = 0
       THEN procs' = Local(t, [Begin(kind, from) EXCEPT
                                  !.pc = "done", !.res = Ok(0), !.cmd = Ok(0)])
       ELSE procs' = Local(t, [Begin(kind, from) EXCEPT
                                  !.pc = "apply", !.mypc = peer_connection])
    /\ UNCHANGED <<engine, pcs, cb, timers, orch, offcall>>

\* engine.rs 293-297 and 311-315: the stored connection is cloned under the
\* lock, or the operation returns NoActiveCall.
ReadPeerConnection(t, kind, from) ==
    /\ SigReady(t)
    /\ used' = Spend("ops")
    /\ IF peer_connection = 0
       THEN procs' = Local(t, [Begin(kind, from) EXCEPT
                                  !.pc = "done", !.res = Err("NoActiveCall"),
                                  !.cmd = Ok(0)])
       ELSE procs' = Local(t, [Begin(kind, from) EXCEPT
                                  !.pc = "apply", !.mypc = peer_connection])
    /\ UNCHANGED <<engine, pcs, cb, timers, orch, offcall>>

\* engine.rs 299-306 and 317-324: parse, then set_remote_description or
\* add_ice_candidate on the cloned connection.
ApplyRemote(t) ==
    /\ procs[t].pc = "apply"
    /\ \/ /\ pcs[procs[t].mypc].conn = "open"
          /\ pcs' = IF procs[t].op = "AnswerReceived"
                    THEN [pcs EXCEPT ![procs[t].mypc] = [@ EXCEPT !.remote = TRUE]]
                    ELSE pcs
          /\ procs' = Local(t, [procs[t] EXCEPT
                                   !.pc = "done", !.res = Ok(0), !.cmd = Ok(0)])
       \/ /\ \E e \in {"InvalidSdp", "WebRTC"} :
                /\ (e = "InvalidSdp") => (procs[t].op = "AnswerReceived")
                /\ procs' = Local(t, [procs[t] EXCEPT
                                         !.pc = "done", !.res = Err(e),
                                         !.cmd = Ok(0)])
          /\ UNCHANGED pcs
    /\ UNCHANGED <<engine, cb, timers, orch, used, offcall>>

\* --------------------------------------------------- the RTC layer's reports
RtcStates == {"Connecting", "Connected", "Disconnected", "Failed", "Closed"}

\* A table that would ignore the Closed report.
NewStateFor_IgnoresClosed(s, current) ==
    CASE s = "Connected" ->
            IF current.tag \in {"Connecting", "Calling"}
            THEN Connected(current.peer_id) ELSE None
      [] s \in {"Disconnected", "Failed"} -> Ended
      [] OTHER -> None

\* engine.rs 504-521: the new call state for an RTC state, if any.
NewStateFor(s, current) ==
    CASE s = "Connected" ->
            IF current.tag \in {"Connecting", "Calling"}
            THEN Connected(current.peer_id) ELSE None
      [] s \in {"Disconnected", "Failed", "Closed"} -> Ended
      [] OTHER -> None

\* A connection reports Closed once it has been closed, and the other states
\* while it is open and both descriptions are set.
CanReport(id, s) ==
    IF s = "Closed" THEN pcs[id].conn = "closing"
    ELSE /\ pcs[id].conn = "open" /\ pcs[id].local # 0 /\ pcs[id].remote
         /\ used.rtc < MaxRtc

\* engine.rs 501-521: the handler computes new_state, reading the call state
\* under its own lock for Connected.
OnPeerConnectionStateChange(id, s) ==
    /\ cb.pc = "idle"
    /\ CanReport(id, s)
    /\ pcs' = IF s = "Closed" THEN [pcs EXCEPT ![id] = [@ EXCEPT !.conn = "closed"]]
              ELSE pcs
    /\ used' = IF s = "Closed" THEN used ELSE Spend("rtc")
    /\ cb' = IF NewStateFor(s, state) = None THEN [pc |-> "idle"]
             ELSE [pc |-> "write", new |-> NewStateFor(s, state)]
    /\ UNCHANGED <<engine, timers, procs, orch, offcall>>

\* engine.rs 524: `*state_clone.lock() = new_state.clone()`.
CallbackWrite ==
    /\ cb.pc = "write"
    /\ state' = cb.new
    /\ cb' = [cb EXCEPT !.pc = "emit"]
    /\ procs' = Disturbed
    /\ UNCHANGED <<peer_connection, audio_handler, event_tx, pcs, timers, orch, used,
                   offcall>>

\* engine.rs 525: `event_tx_clone.send(StateChanged(new_state))`.
CallbackEmit ==
    /\ cb.pc = "emit"
    /\ event_tx' = Send(StateChanged(cb.new))
    /\ cb' = [pc |-> "idle"]
    /\ UNCHANGED <<state, peer_connection, audio_handler, pcs, timers, procs,
                   orch, used, offcall>>

\* engine.rs 533-544: a gathered candidate is published as an IceCandidate
\* event; gathering starts with set_local_description.
OnIceCandidate(id) ==
    /\ pcs[id].local # 0 /\ pcs[id].conn = "open"
    /\ used.ice < MaxIce
    /\ used' = Spend("ice")
    /\ event_tx' = Send(IceCandidate(id))
    /\ loops' = [i \in DOMAIN loops |-> Append(loops[i], IceCandidate(id))]
    /\ UNCHANGED <<state, peer_connection, audio_handler, pcs, cb, timers,
                   procs, signaling, outbound, client, heartbeat, offcall>>

\* ------------------------------------------------------------ the Idle timer
\* engine.rs 353-354: after the sleep, `*state.lock() = CallState::Idle`.
TimerWrite ==
    /\ timers.sleeping > 0
    /\ state' = Idle
    /\ timers' = [sleeping |-> timers.sleeping - 1, written |-> timers.written + 1]
    /\ procs' = Disturbed
    /\ UNCHANGED <<peer_connection, audio_handler, event_tx, pcs, cb, orch, used,
                   offcall>>

\* engine.rs 355: `event_tx.send(StateChanged(Idle))`.
TimerEmit ==
    /\ timers.written > 0
    /\ event_tx' = Send(StateChanged(Idle))
    /\ timers' = [timers EXCEPT !.written = @ - 1]
    /\ UNCHANGED <<state, peer_connection, audio_handler, pcs, cb, procs, orch, used,
                   offcall>>

\* ---------------------------------------------------------- the orchestrator
\* ---------------------------------------------------------- SignalingError
ConnectionFailed == [kind |-> "ConnectionFailed"]
SendFailed == [kind |-> "SendFailed"]
NotConnected == [kind |-> "NotConnected"]
RegistrationFailed(why) == [kind |-> "RegistrationFailed", why |-> why]
ServerError(code, message) ==
    [kind |-> "ServerError", code |-> code, message |-> message]

\* ------------------------------------------------------ outbound messages
\* The payload structs of messages.rs, by the fields the model tells apart.
Message(type, to, body) == [type |-> type, to |-> to, body |-> body]

\* Utc::now().timestamp_millis(): time is counted in heartbeat ticks.
Now == used.ticks

\* The keys of a message in the order `keys.sort()` puts them.
KeyOrder == <<"body", "signature", "timestamp", "to", "type">>

\* keypair.rs 170-187: sort_json_object keeps every key but "signature",
\* sorted; the object is the sequence of its key-value pairs.
SortJsonObject(v) ==
    LET keys == SelectSeq(KeyOrder, LAMBDA k : k \in DOMAIN v /\ k # "signature")
    IN [i \in DOMAIN keys |-> <<keys[i], v[keys[i]]>>]

\* The client's identity, and keypair.rs 133-141: the signature of bytes.
KeyPair == "kp"
Sign(key, bytes) == [by |-> key, over |-> bytes]

\* keypair.rs 162-167: sign_message signs the sorted object's string.
SignMessage(payload) == Sign(KeyPair, SortJsonObject(payload))

\* obj.insert(key, value) on a JSON object.
Insert(v, k, x) == [f \in DOMAIN v \cup {k} |-> IF f = k THEN x ELSE v[f]]

\* client.rs 401-408 / 442-449: the payload with the timestamp inserted.
Signable(payload, ts) == Insert(payload, "timestamp", ts)

\* A message whose signature would be made before the timestamp is inserted.
FinalMessage_SignsPayload(payload, ts) ==
    Insert(Signable(payload, ts), "signature", SignMessage(payload))

\* client.rs 409-417 / 450-458: the signable with its signature inserted.
FinalMessage(payload, ts) ==
    Insert(Signable(payload, ts), "signature", SignMessage(Signable(payload, ts)))

\* A channel that would take one message more than its capacity.
TrySendResult_OffByOne(q) ==
    IF writer = "stopped" \/ Len(q) > OutboundCapacity
    THEN Err(SendFailed) ELSE Ok(0)

\* client.rs 423-424: try_send fails when the channel is full and when the
\* write task has dropped the receiver.
TrySendResult(q) ==
    IF writer = "stopped" \/ Len(q) >= OutboundCapacity
    THEN Err(SendFailed) ELSE Ok(0)

\* client.rs 387-425: send_signed_message_sync.
TrySend(q, m) ==
    IF TrySendResult(q) = Ok(0) THEN Append(q, FinalMessage(m, Now)) ELSE q

\* The identity the server gives this client when it registers.
OwnPeerId == "p-1"
OwnUsername == "bob"

\* lib.rs 115-231, a run of the connect_and_register command that
\* registered.  The new client is connected and registered, its register
\* message is written, its outbound channel is empty and its read and write
\* tasks run; the client is stored, a call-event loop subscribes to the
\* engine's events and a heartbeat task is spawned.
ConnectAndRegisterWithin(n) ==
    /\ used.connects < n
    /\ used' = [used EXCEPT !.connects = @ + 1, !.replies = 1]
    /\ client_state' = [is_connected |-> TRUE, peer_id |-> OwnPeerId,
                        username |-> OwnUsername]
    /\ signaling_event_tx' =
          <<[type |-> "Connected"],
            [type |-> "Registered", peer_id |-> OwnPeerId,
             username |-> OwnUsername]>>
    /\ outbound' = <<>>
    /\ ws_write' = <<FinalMessage(Message("register", "", OwnUsername), Now)>>
    /\ ws_read' = <<>>
    /\ ws_sent' = <<>>
    /\ reg_rx' = <<>>
    /\ conn' = [pc |-> "done", username |-> OwnUsername,
                reply |-> Ok(OwnPeerId), result |-> Ok(OwnPeerId),
                stored |-> TRUE]
    /\ reader' = [pc |-> "recv"]
    /\ writer' = "running"
    /\ signaling' = "Some"
    /\ loops' = Append(loops, <<>>)
    /\ heartbeat' = Append(heartbeat, [pc |-> "running", last |-> NoRes])
    /\ UNCHANGED <<engine, pcs, cb, timers, procs, offcall>>

ConnectAndRegister == ConnectAndRegisterWithin(MaxConnects)

\* lib.rs 235-238: disconnect.
Disconnect ==
    /\ signaling = "Some"
    /\ signaling' = "None"
    /\ UNCHANGED <<engine, pcs, cb, timers, procs, outbound, loops, used, client,
                   heartbeat, offcall>>

\* A loop that would send candidates only once the call is connected.
TargetPeer_OnlyConnected(s) ==
    IF s.tag = "Connected" THEN s.peer_id ELSE ""

\* lib.rs 159-165: the peer of the current call state, "" when there is none.
TargetPeer(s) ==
    IF s.tag \in {"Calling", "Connecting", "Connected", "Ringing"}
    THEN s.peer_id ELSE ""

\* lib.rs 153-195: call-event loop i receives its next IceCandidate event.
\* (StateChanged and Error events only go to the UI.)
CallEventLoop(i) ==
    /\ loops[i] # <<>>
    /\ loops' = [loops EXCEPT ![i] = Tail(@)]
    /\ outbound' =
          IF TargetPeer(state) # "" /\ signaling = "Some"
          THEN TrySend(outbound,
                       Message("ice_candidate", TargetPeer(state),
                               Head(loops[i]).candidate))
          ELSE outbound
    /\ UNCHANGED <<engine, pcs, cb, timers, procs, signaling, used, client,
                   heartbeat, offcall>>

\* lib.rs 363-369: the start_call command needs a sender.
CheckSender(t) ==
    /\ procs[t].pc = "check_sender"
    /\ procs' = Local(t, IF signaling = "Some"
                         THEN [procs[t] EXCEPT !.pc = "send"]
                         ELSE [procs[t] EXCEPT
                                  !.pc = "done", !.cmd = Err("Not connected")])
    /\ UNCHANGED <<engine, pcs, cb, timers, orch, used, offcall>>

\* The message a command sends once its engine operation has returned.
CommandMessage(r) ==
    CASE r.op = "start_call" -> Message("offer", r.peer, r.res.value)
      [] r.op = "accept_call" -> Message("answer", r.peer, r.res.value)
      [] r.op = "reject_call" -> Message("reject_call", r.peer, 0)
      [] OTHER -> Message("hangup", r.peer, 0)

\* lib.rs 375-383, 404-411, 425-432, 450-457: the non-blocking send; its
\* result is dropped.
SendCommandMessage(t) ==
    /\ procs[t].pc = "send"
    /\ outbound' = IF signaling = "Some"
                   THEN TrySend(outbound, CommandMessage(procs[t]))
                   ELSE outbound
    /\ procs' = Local(t, [procs[t] EXCEPT !.pc = "done", !.cmd = Ok(0)])
    /\ UNCHANGED <<engine, pcs, cb, timers, signaling, loops, used, client,
                   heartbeat, offcall>>

\* client.rs 321-325, 337-384: a non-blocking form needs the peer id and
\* hands its payload to send_signed_message_sync.
SendSyncResult ==
    IF client_state.peer_id = "" THEN Err(NotConnected)
    ELSE TrySendResult(outbound)

\* The usernames the user searches for.
TargetUsernames == {"bob", "carol"}

\* lib.rs 242-259: the find_user command.  Without a stored, connected
\* client it returns "Not connected"; otherwise it calls find_user_sync.
FindUser(u) ==
    /\ used.finds < MaxFinds
    /\ used' = Spend("finds")
    /\ outbound' =
          IF signaling = "Some" /\ client_state.is_connected
             /\ client_state.peer_id # ""
          THEN TrySend(outbound, Message("find_user", "", u))
          ELSE outbound
    /\ UNCHANGED <<engine, pcs, cb, timers, procs, signaling, loops, client,
                   heartbeat, offcall>>

\* lib.rs 201-227: a tick of heartbeat task i.  With a stored client that is
\* connected it calls send_heartbeat_sync and goes on; otherwise it stops.
HeartbeatTickWithin(i, n) ==
    /\ heartbeat[i].pc = "running"
    /\ used.ticks < n
    /\ used' = Spend("ticks")
    /\ IF signaling = "Some" /\ client_state.is_connected
       THEN /\ outbound' =
                  IF client_state.peer_id = "" THEN outbound
                  ELSE TrySend(outbound,
                               Message("heartbeat", "", client_state.peer_id))
            /\ heartbeat' = [heartbeat EXCEPT ![i].last = SendSyncResult]
       ELSE /\ heartbeat' = [heartbeat EXCEPT ![i].pc = "stopped"]
            /\ UNCHANGED outbound
    /\ UNCHANGED <<engine, pcs, cb, timers, procs, signaling, loops, client,
                   offcall>>

HeartbeatTick(i) == HeartbeatTickWithin(i, MaxTicks)

\* ================================================== the signaling client
\* ----------------------------------------------------------- ServerMessage
ErrorCodes == {409}
PeerIds == {"p-1", "p-2"}
RegisteredNames == {"bob", "bobby"}

\* messages.rs 199-287: the fields of each ServerMessage variant, its tag in
\* snake_case.
StructFields ==
    [registered |-> {"peer_id", "username", "timestamp"},
     user_found |-> {"peer_id", "username", "is_online", "timestamp"},
     user_not_found |-> {"username", "timestamp"},
     incoming_offer |-> {"from_peer_id", "from_username", "sdp", "timestamp"},
     incoming_answer |-> {"from_peer_id", "sdp", "timestamp"},
     incoming_ice_candidate |-> {"from_peer_id", "candidate", "timestamp"},
     call_rejected |-> {"by_peer_id", "reason", "timestamp"},
     call_ended |-> {"by_peer_id", "timestamp"},
     user_offline |-> {"peer_id", "timestamp"},
     user_online |-> {"peer_id", "timestamp"},
     error |-> {"code", "message", "timestamp"},
     pong |-> {"timestamp"}]

\* The `#[serde(rename = ..)]` attributes: the JSON key of a field.
JsonKey(field) ==
    CASE field = "peer_id" -> "peerId"
      [] field = "is_online" -> "isOnline"
      [] field = "from_peer_id" -> "fromPeerId"
      [] field = "from_username" -> "fromUsername"
      [] field = "by_peer_id" -> "byPeerId"
      [] OTHER -> field

\* Option fields, which may be absent (call_rejected's reason).
OptionalFields == {"reason"}

\* serde_json::from_str::<ServerMessage> succeeds on a JSON object with a
\* known type tag and every required key.
WellFormed(j) ==
    /\ "type" \in DOMAIN j
    /\ j.type \in DOMAIN StructFields
    /\ \A field \in StructFields[j.type] \ OptionalFields :
          JsonKey(field) \in DOMAIN j

\* The ServerMessage that a well-formed JSON object deserializes to.
ParseServerMessage(j) ==
    [field \in StructFields[j.type] \cup {"type"} |->
        IF field = "type" THEN j.type
        ELSE IF JsonKey(field) \in DOMAIN j THEN j[JsonKey(field)]
        ELSE "None"]

\* The frames of the WebSocket: text frames carrying a body, the close
\* frame and a stream error.
TextFrame(j) == [ws |-> "text", body |-> j]
CloseFrame == [ws |-> "close"]
ErrorFrame == [ws |-> "error"]

\* The well-formed bodies the server sends.
ServerMessages ==
    {[type |-> "registered", peerId |-> p, username |-> u, timestamp |-> 0] :
        p \in PeerIds, u \in RegisteredNames}
    \cup {[type |-> "error", code |-> c, message |-> "taken", timestamp |-> 0] :
            c \in ErrorCodes}
    \cup {[type |-> "user_found", peerId |-> "p1", username |-> "bob",
            isOnline |-> TRUE, timestamp |-> 0],
          [type |-> "user_not_found", username |-> "bob", timestamp |-> 0],
          [type |-> "incoming_offer", fromPeerId |-> "p1", fromUsername |-> "bob",
            sdp |-> "v=0", timestamp |-> 0],
          [type |-> "incoming_answer", fromPeerId |-> "p1", sdp |-> "v=0",
            timestamp |-> 0],
          [type |-> "incoming_ice_candidate", fromPeerId |-> "p1",
            candidate |-> "c1", timestamp |-> 0],
          [type |-> "call_rejected", byPeerId |-> "p1", timestamp |-> 0],
          [type |-> "call_ended", byPeerId |-> "p1", timestamp |-> 0],
          [type |-> "user_offline", peerId |-> "p1", timestamp |-> 0],
          [type |-> "user_online", peerId |-> "p1", timestamp |-> 0],
          [type |-> "pong", timestamp |-> 0]}

\* Bodies that do not deserialize: text that is no JSON object (it has no
\* type), an unknown type, and a known type without a required key.
MalformedBodies ==
    {[garbage |-> "{"],
     [type |-> "bogus", timestamp |-> 0],
     [type |-> "user_online", timestamp |-> 0]}

ServerFrames ==
    {TextFrame(j) : j \in ServerMessages \cup MalformedBodies}
        \cup {CloseFrame, ErrorFrame}

\* Whether frame f is the server's reply to register.
IsRegisterReply(f) ==
    /\ f.ws = "text" /\ "type" \in DOMAIN f.body
    /\ f.body.type \in {"registered", "error"}

\* What a step of the signaling client leaves alone.
callside == <<engine, pcs, cb, timers, procs, signaling, loops, heartbeat, ws_sent>>

\* client.rs 166-168: connect_async, `?` returning ConnectionFailed.
ConnectAsync(u) ==
    /\ conn.pc = "idle"
    /\ \/ conn' = [conn EXCEPT !.pc = "setup", !.username = u]
       \/ conn' = [conn EXCEPT !.pc = "done", !.username = u,
                               !.result = Err(ConnectionFailed)]
    /\ UNCHANGED <<callside, outbound, used, client_state, signaling_event_tx,
                   reg_rx, ws_read, ws_write, reader, writer, offcall>>

\* client.rs 170-237: the outbound channel and the registration channel are
\* created, the state says connected, Connected is sent, and the read and
\* write tasks are spawned.
ConnectSetup ==
    /\ conn.pc = "setup"
    /\ client_state' = [client_state EXCEPT !.is_connected = TRUE,
                                            !.username = conn.username]
    /\ signaling_event_tx' = Append(signaling_event_tx, [type |-> "Connected"])
    /\ reader' = [pc |-> "recv"]
    /\ writer' = "running"
    /\ conn' = [conn EXCEPT !.pc = "register"]
    /\ UNCHANGED <<callside, outbound, used, reg_rx, ws_read, ws_write,
                   offcall>>

\* client.rs 240, 257-260 and 428-466: send_register awaits `tx.send`, which
\* fails once the write task has dropped the receiver.
SendRegister ==
    /\ conn.pc = "register"
    /\ IF writer = "running"
       THEN /\ Len(outbound) < OutboundCapacity
            /\ outbound' = Append(outbound,
                                   FinalMessage(Message("register", "", conn.username),
                                                Now))
            /\ conn' = [conn EXCEPT !.pc = "wait"]
       ELSE /\ conn' = [conn EXCEPT !.pc = "done", !.result = Err(SendFailed)]
            /\ UNCHANGED outbound
    /\ UNCHANGED <<callside, used, client_state, signaling_event_tx, reg_rx,
                   ws_read, ws_write, reader, writer, offcall>>

\* A write task that would forward the newest queued message first.
WriteTask_Newest ==
    /\ writer = "running" /\ outbound # <<>>
    /\ used.writes < MaxWrites
    /\ used' = Spend("writes")
    /\ outbound' = SubSeq(outbound, 1, Len(outbound) - 1)
    /\ \/ ws_write' = Append(ws_write, outbound[Len(outbound)])
          /\ UNCHANGED writer
       \/ writer' = "stopped" /\ UNCHANGED ws_write
    /\ UNCHANGED <<callside, client_state, signaling_event_tx, reg_rx,
                   ws_read, conn, reader, offcall>>

\* client.rs 230-237: the write task forwards the next queued message, and
\* ends when the socket refuses it.  The socket completes a bounded number
\* of writes; until it completes one the task waits in `write.send`.
WriteTask ==
    /\ writer = "running" /\ outbound # <<>>
    /\ used.writes < MaxWrites
    /\ used' = Spend("writes")
    /\ outbound' = Tail(outbound)
    /\ \/ ws_write' = Append(ws_write, Head(outbound)) /\ UNCHANGED writer
       \/ writer' = "stopped" /\ UNCHANGED ws_write
    /\ UNCHANGED <<callside, client_state, signaling_event_tx, reg_rx,
                   ws_read, conn, reader, offcall>>

\* The server: it answers a register it has received once, with registered
\* or error; it may send any other frame at any time, and nothing after it
\* has closed the socket.
ServerSends(f) ==
    /\ reader.pc \in {"recv", "write_state", "reg_send", "emit"}
    /\ used.srv < MaxServerMsgs
    /\ IsRegisterReply(f) =>
          /\ \E i \in DOMAIN ws_write : ws_write[i].type = "register"
          /\ used.replies = 0
    /\ \A i \in DOMAIN ws_read : ws_read[i].ws = "text"
    /\ ws_read' = Append(ws_read, f)
    /\ ws_sent' = Append(ws_sent, f)
    /\ used' = [used EXCEPT !.srv = @ + 1,
                            !.replies = IF IsRegisterReply(f) THEN 1 ELSE @]
    /\ UNCHANGED <<engine, pcs, cb, timers, procs, signaling, loops, heartbeat,
                   outbound, client_state, signaling_event_tx, reg_rx, ws_write,
                   conn, reader, writer, offcall>>

\* Where handle_server_message begins for a message: client.rs 476-568.
HandlerEntry(m) ==
    CASE m.type = "registered" -> [pc |-> "write_state", msg |-> m]
      [] m.type = "error" -> [pc |-> "reg_send", msg |-> m]
      [] m.type = "pong" -> [pc |-> "recv"]
      [] OTHER -> [pc |-> "emit", msg |-> m]

\* A read task that would end its loop at a text frame it cannot parse.
ReadNext_EndsOnBadText ==
    /\ reader.pc = "recv" /\ ws_read # <<>>
    /\ ws_read' = Tail(ws_read)
    /\ reader' =
          IF Head(ws_read).ws = "text" /\ WellFormed(Head(ws_read).body)
          THEN HandlerEntry(ParseServerMessage(Head(ws_read).body))
          ELSE [pc |-> "disconnect"]
    /\ UNCHANGED <<callside, outbound, used, client_state, signaling_event_tx,
                   reg_rx, ws_write, conn, writer, offcall>>

\* client.rs 195-216: the read task takes the next frame.  A text frame
\* that deserializes goes to handle_server_message and any other text frame
\* is skipped; a close frame or a stream error ends the loop.
ReadNext ==
    /\ reader.pc = "recv" /\ ws_read # <<>>
    /\ ws_read' = Tail(ws_read)
    /\ reader' =
          IF Head(ws_read).ws # "text" THEN [pc |-> "disconnect"]
          ELSE IF WellFormed(Head(ws_read).body)
               THEN HandlerEntry(ParseServerMessage(Head(ws_read).body))
               ELSE [pc |-> "recv"]
    /\ UNCHANGED <<callside, outbound, used, client_state, signaling_event_tx,
                   reg_rx, ws_write, conn, writer, offcall>>

\* A Registered arm that would leave the client state as it is.
HandleRegistered_Skips ==
    /\ reader.pc = "write_state"
    /\ reader' = [reader EXCEPT !.pc = "reg_send"]
    /\ UNCHANGED <<callside, outbound, used, client_state, signaling_event_tx,
                   reg_rx, ws_read, ws_write, conn, writer, offcall>>

\* client.rs 480-484: Registered populates the client state.
HandleRegistered ==
    /\ reader.pc = "write_state"
    /\ client_state' = [client_state EXCEPT !.peer_id = reader.msg.peer_id,
                                            !.username = reader.msg.username]
    /\ reader' = [reader EXCEPT !.pc = "reg_send"]
    /\ UNCHANGED <<callside, outbound, used, signaling_event_tx, reg_rx,
                   ws_read, ws_write, conn, writer, offcall>>

\* What handle_server_message reports on the registration channel:
\* client.rs 485 for Registered, 557-562 for Error.
RegistrationReply(m) ==
    IF m.type = "registered" THEN Ok(m.peer_id)
    ELSE Err(ServerError(m.code, m.message))

\* client.rs 485 / 557-562: `reg_tx.send(..).await`, result dropped.  The
\* send waits while the channel is full, and fails at once when
\* connect_and_register has returned and dropped the receiver.
RegSend ==
    /\ reader.pc = "reg_send"
    /\ IF conn.pc = "done" THEN UNCHANGED reg_rx
       ELSE /\ Len(reg_rx) < 1
            /\ reg_rx' = Append(reg_rx, RegistrationReply(reader.msg))
    /\ reader' = [reader EXCEPT !.pc = "emit"]
    /\ UNCHANGED <<callside, outbound, used, client_state, signaling_event_tx,
                   ws_read, ws_write, conn, writer, offcall>>

\* A handler that would report every server message as an Error event.
EventFor_AlwaysError(m) == [type |-> "Error", code |-> 0, message |-> m.type]

\* The SignalingEvent handle_server_message sends for a server message.
EventFor(m) ==
    CASE m.type = "registered" ->
            [type |-> "Registered", peer_id |-> m.peer_id, username |-> m.username]
      [] m.type = "user_found" ->
            [type |-> "UserFound", peer_id |-> m.peer_id, username |-> m.username,
             is_online |-> m.is_online]
      [] m.type = "user_not_found" ->
            [type |-> "UserNotFound", username |-> m.username]
      [] m.type = "incoming_offer" ->
            [type |-> "IncomingCall", from_peer_id |-> m.from_peer_id,
             from_username |-> m.from_username, sdp |-> m.sdp]
      [] m.type = "incoming_answer" ->
            [type |-> "AnswerReceived", from_peer_id |-> m.from_peer_id,
             sdp |-> m.sdp]
      [] m.type = "incoming_ice_candidate" ->
            [type |-> "IceCandidateReceived", from_peer_id |-> m.from_peer_id,
             candidate |-> m.candidate]
      [] m.type = "call_rejected" ->
            [type |-> "CallRejected", by_peer_id |-> m.by_peer_id,
             reason |-> m.reason]
      [] m.type = "call_ended" ->
            [type |-> "CallEnded", by_peer_id |-> m.by_peer_id]
      [] m.type = "user_online" ->
            [type |-> "ContactOnline", peer_id |-> m.peer_id]
      [] m.type = "user_offline" ->
            [type |-> "ContactOffline", peer_id |-> m.peer_id]
      [] m.type = "error" ->
            [type |-> "Error", code |-> m.code, message |-> m.message]

\* client.rs 486, 495-551, 563: `event_tx.send(..)`, then the next frame.
EmitSignalingEvent ==
    /\ reader.pc = "emit"
    /\ signaling_event_tx' = Append(signaling_event_tx, EventFor(reader.msg))
    /\ reader' = [pc |-> "recv"]
    /\ UNCHANGED <<callside, outbound, used, client_state, reg_rx, ws_read,
                   ws_write, conn, writer, offcall>>

\* A read task that would leave is_connected as it is after its loop.
ReadTaskDisconnect_StaysConnected ==
    /\ reader.pc = "disconnect"
    /\ reader' = [pc |-> "emit_disconnected"]
    /\ UNCHANGED <<callside, outbound, used, client_state, signaling_event_tx,
                   reg_rx, ws_read, ws_write, conn, writer, offcall>>

\* client.rs 221-224: after the loop, is_connected = false.
ReadTaskDisconnect ==
    /\ reader.pc = "disconnect"
    /\ client_state' = [client_state EXCEPT !.is_connected = FALSE]
    /\ reader' = [pc |-> "emit_disconnected"]
    /\ UNCHANGED <<callside, outbound, used, signaling_event_tx, reg_rx, ws_read,
                   ws_write, conn, writer, offcall>>

\* client.rs 225: Disconnected is sent and the read task ends.
ReadTaskEnd ==
    /\ reader.pc = "emit_disconnected"
    /\ signaling_event_tx' = Append(signaling_event_tx, [type |-> "Disconnected"])
    /\ reader' = [pc |-> "stopped"]
    /\ UNCHANGED <<callside, outbound, used, client_state, reg_rx, ws_read,
                   ws_write, conn, writer, offcall>>

\* client.rs 245-249: what connect_and_register returns for a received reply.
ResultOf(reply) ==
    IF reply.status = "Ok" THEN Ok(reply.value) ELSE Err(reply.error)

\* client.rs 243-250: the select's first branch, `reg_rx.recv()`.
AwaitRegistration ==
    /\ conn.pc = "wait" /\ reg_rx # <<>>
    /\ reg_rx' = Tail(reg_rx)
    /\ conn' = [conn EXCEPT !.pc = "done", !.reply = Head(reg_rx),
                            !.result = ResultOf(Head(reg_rx))]
    /\ UNCHANGED <<callside, outbound, used, client_state, signaling_event_tx,
                   ws_read, ws_write, reader, writer, offcall>>

\* A select whose sleep branch would report a missing response.
RegistrationTimeout_NoResponse ==
    /\ conn.pc = "wait"
    /\ conn' = [conn EXCEPT !.pc = "done",
                            !.result = Err(RegistrationFailed("No response"))]
    /\ UNCHANGED <<callside, outbound, used, client_state, signaling_event_tx,
                   reg_rx, ws_read, ws_write, reader, writer, offcall>>

\* client.rs 251-253: the select's second branch, the 10 s sleep.
RegistrationTimeout ==
    /\ conn.pc = "wait"
    /\ conn' = [conn EXCEPT !.pc = "done",
                            !.result = Err(RegistrationFailed("Timeout"))]
    /\ UNCHANGED <<callside, outbound, used, client_state, signaling_event_tx,
                   reg_rx, ws_read, ws_write, reader, writer, offcall>>

\* lib.rs 138-227: connect_and_register has returned Ok to the command,
\* which stores the client, subscribes a call-event loop to the engine's
\* events and spawns the heartbeat task.
StoreClient ==
    /\ conn.pc = "done" /\ conn.result.status = "Ok" /\ ~conn.stored
    /\ conn' = [conn EXCEPT !.stored = TRUE]
    /\ signaling' = "Some"
    /\ loops' = Append(loops, <<>>)
    /\ heartbeat' = Append(heartbeat, [pc |-> "running", last |-> NoRes])
    /\ UNCHANGED <<engine, pcs, cb, timers, procs, outbound, used, client_state,
                   signaling_event_tx, reg_rx, ws_read, ws_write, reader, writer,
                   ws_sent, offcall>>

NextSignaling ==
    \/ \E u \in Usernames : ConnectAsync(u)
    \/ ConnectSetup
    \/ SendRegister
    \/ WriteTask
    \/ \E f \in ServerFrames : ServerSends(f)
    \/ ReadNext
    \/ HandleRegistered
    \/ RegSend
    \/ EmitSignalingEvent
    \/ ReadTaskDisconnect
    \/ ReadTaskEnd
    \/ AwaitRegistration
    \/ RegistrationTimeout
    \/ StoreClient
    \/ \E u \in TargetUsernames : FindUser(u)

SpecSignaling == Init /\ [][NextSignaling]_vars

\* The steps of the client's own tasks.  Each task runs on once started and
\* the 10 s sleep elapses; when the command is invoked and what the server
\* sends is up to the environment.
ClientSteps ==
    \/ ConnectSetup
    \/ SendRegister
    \/ WriteTask
    \/ ReadNext
    \/ HandleRegistered
    \/ RegSend
    \/ EmitSignalingEvent
    \/ ReadTaskDisconnect
    \/ ReadTaskEnd
    \/ AwaitRegistration
    \/ RegistrationTimeout

SpecSignalingLive == Init /\ [][NextSignaling]_vars /\ WF_vars(ClientSteps)

\* The registered client and its heartbeat: ticks of the interval, the
\* write task, the server closing the socket, the disconnect command.
NextHeartbeat ==
    \/ ConnectAndRegister
    \/ Disconnect
    \/ \E i \in DOMAIN heartbeat : HeartbeatTick(i)
    \/ WriteTask
    \/ \E f \in {CloseFrame, ErrorFrame} : ServerSends(f)
    \/ ReadNext
    \/ ReadTaskDisconnect
    \/ ReadTaskEnd

SpecHeartbeat == Init /\ [][NextHeartbeat]_vars

Next ==
    \/ \E t \in Procs, p \in PeersNow : StartCallGuard(t, p)
    \/ \E t \in Procs, p \in PeersNow : AcceptCallGuard(t, p)
    \/ \E t \in Procs : SetStateWrite(t)
    \/ \E t \in Procs : SetStateEmit(t)
    \/ \E t \in Procs : Negotiate(t)
    \/ \E t \in Procs : StorePeerConnection(t)
    \/ \E t \in Procs : InitAudio(t)
    \/ \E t \in Procs, p \in PeersNow : RejectCall(t, p)
    \/ \E t \in Procs : Hangup(t)
    \/ \E t \in Procs : HangupEndCall(t)
    \/ \E t \in Procs : EndCallTakePc(t)
    \/ \E t \in Procs, p \in PeersNow, u \in Usernames : OnIncomingCall(t, p, u)
    \/ \E t \in Procs, k \in {"CallRejected", "CallEnded"}, p \in PeersNow :
          OnCallOver(t, k, p)
    \/ \E t \in Procs, k \in {"AnswerReceived", "IceCandidateReceived"} :
          ReadPeerConnection(t, k, "")
    \/ \E t \in Procs : ApplyRemote(t)
    \/ \E id \in DOMAIN pcs, s \in RtcStates : OnPeerConnectionStateChange(id, s)
    \/ CallbackWrite
    \/ CallbackEmit
    \/ \E id \in DOMAIN pcs : OnIceCandidate(id)
    \/ TimerWrite
    \/ TimerEmit
    \/ ConnectAndRegister
    \/ Disconnect
    \/ \E i \in DOMAIN loops : CallEventLoop(i)
    \/ \E t \in Procs : CheckSender(t)
    \/ \E t \in Procs : SendCommandMessage(t)

Spec == Init /\ [][Next]_vars

\* Outgoing calls with the write task: the start_call and hangup commands,
\* incoming calls, the candidates the connection gathers, the call-event loops, and the
\* socket taking or refusing what is queued.
NextCandidates ==
    \/ \E t \in Procs, p \in PeersNow : StartCallGuard(t, p)
    \/ \E t \in Procs : SetStateWrite(t)
    \/ \E t \in Procs : SetStateEmit(t)
    \/ \E t \in Procs : Negotiate(t)
    \/ \E t \in Procs : StorePeerConnection(t)
    \/ \E t \in Procs : InitAudio(t)
    \/ \E t \in Procs : Hangup(t)
    \/ \E t \in Procs : HangupEndCall(t)
    \/ \E t \in Procs : EndCallTakePc(t)
    \/ \E t \in Procs, p \in PeersNow, u \in Usernames : OnIncomingCall(t, p, u)
    \/ \E id \in DOMAIN pcs : OnIceCandidate(id)
    \/ TimerWrite
    \/ TimerEmit
    \/ ConnectAndRegister
    \/ Disconnect
    \/ \E i \in DOMAIN loops : CallEventLoop(i)
    \/ \E t \in Procs : CheckSender(t)
    \/ \E t \in Procs : SendCommandMessage(t)
    \/ WriteTask

SpecCandidates == Init /\ [][NextCandidates]_vars

\* The engine with its commands, callbacks and timers, without a signaling
\* client.  A task that is running runs on, a callback that has begun
\* finishes and a sleeping timer fires; new commands and RTC reports are up
\* to the environment.
Internal ==
    \/ \E t \in Procs : SetStateWrite(t)
    \/ \E t \in Procs : SetStateEmit(t)
    \/ \E t \in Procs : Negotiate(t)
    \/ \E t \in Procs : StorePeerConnection(t)
    \/ \E t \in Procs : InitAudio(t)
    \/ \E t \in Procs : HangupEndCall(t)
    \/ \E t \in Procs : EndCallTakePc(t)
    \/ \E t \in Procs : CheckSender(t)
    \/ \E t \in Procs : SendCommandMessage(t)
    \/ CallbackWrite
    \/ CallbackEmit
    \/ TimerWrite
    \/ TimerEmit

NextEngine ==
    \/ \E t \in Procs, p \in PeersNow : StartCallGuard(t, p)
    \/ \E t \in Procs, p \in PeersNow : AcceptCallGuard(t, p)
    \/ \E t \in Procs, p \in PeersNow : RejectCall(t, p)
    \/ \E t \in Procs : Hangup(t)
    \/ \E id \in DOMAIN pcs, s \in RtcStates : OnPeerConnectionStateChange(id, s)
    \/ Internal

SpecLive == Init /\ [][NextEngine]_vars /\ WF_vars(Internal)

\* The user connects, disconnects and connects again around an outgoing
\* call: the start_call command, the candidates its connection gathers, the
\* call-event loops and the heartbeat tasks of every connect_and_register.
NextReconnect ==
    \/ ConnectAndRegisterWithin(MaxReconnects)
    \/ Disconnect
    \/ \E t \in Procs, p \in PeersNow : StartCallGuard(t, p)
    \/ \E t \in Procs : SetStateWrite(t)
    \/ \E t \in Procs : SetStateEmit(t)
    \/ \E t \in Procs : Negotiate(t)
    \/ \E t \in Procs : StorePeerConnection(t)
    \/ \E t \in Procs : InitAudio(t)
    \/ \E t \in Procs : CheckSender(t)
    \/ \E t \in Procs : SendCommandMessage(t)
    \/ \E id \in DOMAIN pcs : OnIceCandidate(id)
    \/ \E i \in DOMAIN loops : CallEventLoop(i)
    \/ \E i \in DOMAIN heartbeat : HeartbeatTickWithin(i, MaxReconnectTicks)

SpecReconnect == Init /\ [][NextReconnect]_vars

\* ======================================================== the audio handler
\* audio.rs 18-27.
SAMPLE_RATE == 48000
FRAME_SIZE == 960
RING_BUFFER_SIZE == FRAME_SIZE * 10

\* ------------------------------------------------------ select_best_config
\* A SupportedStreamConfigRange: its rate range, sample format and channels.
ConfigRange(lo, hi, fmt, ch) ==
    [min_sample_rate |-> lo, max_sample_rate |-> hi, sample_format |-> fmt,
     channels |-> ch]

\* with_sample_rate(rate).into(): the StreamConfig of a range at a rate.
WithSampleRate(c, rate) == [channels |-> c.channels, sample_rate |-> rate]

UnsupportedConfig == [kind |-> "UnsupportedConfig"]

\* audio.rs 347-349: the range is f32 and contains the target rate.
ExactF32(c) ==
    /\ c.min_sample_rate <= SAMPLE_RATE
    /\ c.max_sample_rate >= SAMPLE_RATE
    /\ c.sample_format = "F32"

\* audio.rs 358-364: the rate the fallback loop takes for an f32 range.
FallbackRate(c) ==
    IF c.min_sample_rate <= SAMPLE_RATE /\ c.max_sample_rate >= SAMPLE_RATE
    THEN SAMPLE_RATE
    ELSE c.max_sample_rate

\* audio.rs 339-377: select_best_config.  Each loop returns at its first
\* match.
SelectBestConfig(configs) ==
    LET exact == SelectSeq(configs, ExactF32)
        f32 == SelectSeq(configs, LAMBDA c : c.sample_format = "F32")
    IN IF exact # <<>> THEN Ok(WithSampleRate(Head(exact), SAMPLE_RATE))
       ELSE IF f32 # <<>>
            THEN Ok(WithSampleRate(Head(f32), FallbackRate(Head(f32))))
       ELSE IF configs # <<>>
            THEN Ok(WithSampleRate(Head(configs), Head(configs).max_sample_rate))
       ELSE Err(UnsupportedConfig)

\* ------------------------------------------------------------- init_audio
NoInputDevice == [kind |-> "NoInputDevice"]
NoOutputDevice == [kind |-> "NoOutputDevice"]
StreamBuildError == [kind |-> "StreamBuildError"]

\* What the host reports for a default device: none, one whose stream
\* cannot be built, or a working one.
DeviceStates == {"missing", "broken", "working"}

\* The configuration lists a device reports.
DeviceConfigs ==
    {<<ConfigRange(8000, 48000, "F32", 1)>>,
     <<ConfigRange(8000, 24000, "F32", 1)>>,
     <<ConfigRange(96000, 96000, "I16", 2)>>}

\* audio.rs 121-195 / 198-271: start_capture and start_playback return
\* the error of a missing device, of select_best_config, or of the stream;
\* otherwise the stream runs at the selected rate.
StartStream(device, configs, missing) ==
    IF device = "missing" THEN Err(missing)
    ELSE IF SelectBestConfig(configs).status = "Err"
         THEN Err(SelectBestConfig(configs).error)
    ELSE IF device = "broken" THEN Err(StreamBuildError)
    ELSE Ok(SelectBestConfig(configs).value.sample_rate)

\* engine.rs 558-562: init_audio makes a handler, starts capture and then
\* playback, each with `?`: at the first error it returns, and the handler
\* with whatever stream it had started is dropped.
NewAudioHandler(din, dout, configs) ==
    /\ audio.init = NoRes
    /\ LET capture == StartStream(din, configs, NoInputDevice)
           playback == StartStream(dout, configs, NoOutputDevice)
           made == [NoHandler EXCEPT !.input_device = din,
                                     !.output_device = dout]
       IN audio' =
            IF capture.status = "Err" THEN [made EXCEPT !.init = capture]
            ELSE IF playback.status = "Err" THEN [made EXCEPT !.init = playback]
            ELSE [made EXCEPT !.init = Ok(0),
                              !.input_stream = TRUE, !.output_stream = TRUE,
                              !.input_rate = capture.value,
                              !.output_rate = playback.value]
    /\ UNCHANGED <<engine, pcs, cb, timers, procs, orch, used, keystore, json,
                   selection, bus>>

\* ---------------------------------------------------------- ring buffers
Min(a, b) == IF a < b THEN a ELSE b

\* A push loop that would make room by dropping the oldest samples.
PushAll_Overwrites(ring, samples) ==
    LET all == ring \o samples
    IN SubSeq(all, Len(all) - Min(Len(all), RING_BUFFER_SIZE) + 1, Len(all))

\* audio.rs 178-180 / 299-301: try_push for each sample in turn, results
\* dropped.  HeapRb::try_push refuses a sample when the ring is full, so
\* the samples that fit are appended and the rest are refused.
PushAll(ring, samples) ==
    ring \o SubSeq(samples, 1, Min(Len(samples), RING_BUFFER_SIZE - Len(ring)))

\* The samples of a captured block of n samples.  Sample values stand for
\* f32 samples at full scale; they are even and count up with every sample
\* captured, so that no two are equal and none is 0.
CaptureBlocks == {2000, 4800}
CapturedData(n) == [j \in 1..n |-> 2 * (audio.captured + j)]

\* audio.rs 149-151: the RMS level, at most 1.0; 0 for a block of silence.
Level(data) == IF \A j \in DOMAIN data : data[j] = 0 THEN 0 ELSE 1

\* audio.rs 158-174: linear resampling from the stream's rate to 48 kHz.
Resample(data, source_rate) ==
    LET len == Len(data)
        new_len == (len * SAMPLE_RATE) \div source_rate
    IN IF source_rate # SAMPLE_RATE
       THEN [j \in 1..new_len |->
               LET idx == ((j - 1) * source_rate) \div SAMPLE_RATE
                   rem == ((j - 1) * source_rate) % SAMPLE_RATE
                   s1 == IF idx < len THEN data[idx + 1] ELSE 0
                   s2 == IF idx + 1 < len THEN data[idx + 2] ELSE s1
               IN s1 + ((s2 - s1) * rem) \div SAMPLE_RATE]
       ELSE data

\* What an audio step leaves alone.
callstate == <<engine, pcs, cb, timers, procs, orch>>

\* audio.rs 145-181: the input callback for a block of n samples.
CaptureCallback(n) ==
    /\ audio.input_stream
    /\ used.capture < MaxCaptureOps
    /\ used' = Spend("capture")
    /\ LET data == CapturedData(n)
           leveled == [audio EXCEPT !.input_level = Level(data),
                                    !.captured = @ + n]
       IN audio' =
            IF audio.is_muted THEN leveled
            ELSE [leveled EXCEPT
                    !.capture_buffer =
                        PushAll(@, Resample(data, audio.input_rate))]
    /\ UNCHANGED <<callstate, keystore, json, selection, bus>>

\* A read_frame that would copy the frame and leave it in the ring.
ReadFrame_Peeks ==
    /\ audio.init = Ok(0)
    /\ used.capture < MaxCaptureOps
    /\ used' = Spend("capture")
    /\ audio' =
          IF Len(audio.capture_buffer) >= FRAME_SIZE
          THEN [audio EXCEPT
                  !.frame = Ok(SubSeq(audio.capture_buffer, 1, FRAME_SIZE))]
          ELSE [audio EXCEPT !.frame = Err("None")]
    /\ UNCHANGED <<callstate, keystore, json, selection, bus>>

\* audio.rs 281-294: read_frame; its result is kept in `frame`, None as
\* Err("None").
ReadFrame ==
    /\ audio.init = Ok(0)
    /\ used.capture < MaxCaptureOps
    /\ used' = Spend("capture")
    /\ audio' =
          IF Len(audio.capture_buffer) >= FRAME_SIZE
          THEN [audio EXCEPT
                  !.frame = Ok(SubSeq(audio.capture_buffer, 1, FRAME_SIZE)),
                  !.capture_buffer =
                      SubSeq(@, FRAME_SIZE + 1, Len(audio.capture_buffer))]
          ELSE [audio EXCEPT !.frame = Err("None")]
    /\ UNCHANGED <<callstate, keystore, json, selection, bus>>

\* audio.rs 305-308: set_muted.
SetMuted(muted) ==
    /\ audio.init = Ok(0)
    /\ audio.is_muted # muted
    /\ used.capture < MaxCaptureOps
    /\ used' = Spend("capture")
    /\ audio' = [audio EXCEPT !.is_muted = muted]
    /\ UNCHANGED <<callstate, keystore, json, selection, bus>>

\* The blocks of decoded audio handed to write_samples; their samples
\* count up like the captured ones.
WriteBlocks == {4800}
WrittenData(n) == [j \in 1..n |-> 2 * (audio.written + j)]

\* audio.rs 297-302: write_samples.
WriteSamples(n) ==
    /\ audio.init = Ok(0)
    /\ used.playback < MaxPlaybackOps
    /\ used' = Spend("playback")
    /\ audio' = [audio EXCEPT
                    !.playback_buffer = PushAll(@, WrittenData(n)),
                    !.written = @ + n]
    /\ UNCHANGED <<callstate, keystore, json, selection, bus>>

\* The frames the output callback is asked for.
PlaybackSizes == {960, 961}

\* audio.rs 227-240: output frame i (0-based) pops a sample when its source
\* index is below source_samples_needed.
Pops(i, n, target_rate) ==
    (i * SAMPLE_RATE) \div target_rate < (n * SAMPLE_RATE) \div target_rate

\* audio.rs 221-257: the output callback for n frames.  The source index
\* never decreases, so the frames that pop are the first `popping` ones;
\* a pop from the empty ring, and a frame that does not pop, give 0.0.
PlaybackCallback(n) ==
    /\ audio.output_stream
    /\ used.playback < MaxPlaybackOps
    /\ used' = Spend("playback")
    /\ LET ring == audio.playback_buffer
           popping == Cardinality({i \in 0..(n - 1) :
                                     Pops(i, n, audio.output_rate)})
           popped == Min(popping, Len(ring))
       IN audio' = [audio EXCEPT
                      !.out = SubSeq(ring, 1, popped)
                                \o [j \in 1..(n - popped) |-> 0],
                      !.playback_buffer = SubSeq(ring, popped + 1, Len(ring))]
    /\ UNCHANGED <<callstate, keystore, json, selection, bus>>

NextAudio ==
    \/ \E din \in DeviceStates, dout \in DeviceStates, c \in DeviceConfigs :
          NewAudioHandler(din, dout, c)
    \/ \E n \in CaptureBlocks : CaptureCallback(n)
    \/ ReadFrame
    \/ \E m \in BOOLEAN : SetMuted(m)
    \/ \E n \in WriteBlocks : WriteSamples(n)
    \/ \E n \in PlaybackSizes : PlaybackCallback(n)

SpecAudio == Init /\ [][NextAudio]_vars

\* ============================================================ the key file
\* keypair.rs 93-100: the file save_to_file writes for a key: the standard
\* base64 text of its 32 bytes.
KeyFile(key) == [encoding |-> "base64", bytes |-> 32, key |-> key]

\* The key files load_or_create may find: a stored key, base64 text of 16
\* or of 33 bytes, text that is not base64, and bytes that are not text.
StoredFiles ==
    {KeyFile("stored"),
     [encoding |-> "base64", bytes |-> 16, key |-> "short"],
     [encoding |-> "base64", bytes |-> 33, key |-> "long"],
     [encoding |-> "text", bytes |-> 0, key |-> "none"],
     [encoding |-> "binary", bytes |-> 0, key |-> "none"]}

\* keypair.rs 59: key_path.exists().
Exists(file) == file.encoding # "absent"

\* The keys generate() draws, in the order drawn.
GeneratedKeys ==
    <<"new-1", "new-2", "new-3", "new-4", "new-5", "new-6", "new-7", "new-8">>

\* keypair.rs 78-90: load_from_file: read_to_string, base64 decoding and
\* the check of the length, each returning its error.
LoadFromFile(file) ==
    IF file.encoding = "binary" THEN Err([kind |-> "IoError"])
    ELSE IF file.encoding # "base64" THEN Err([kind |-> "Base64Error"])
    ELSE IF file.bytes # 32
         THEN Err([kind |-> "InvalidKeyLength", len |-> file.bytes])
    ELSE Ok(file.key)

\* A load_or_create that would replace a key file it cannot load.
LoadOrCreate_Regenerates(disk_ok) ==
    /\ used.loads < MaxLoads
    /\ used' = Spend("loads")
    /\ LET key == GeneratedKeys[keystore.generated + 1]
       IN keystore' =
            IF LoadFromFile(keystore.file).status = "Ok"
            THEN [keystore EXCEPT !.result = LoadFromFile(keystore.file)]
            ELSE [keystore EXCEPT !.file = KeyFile(key), !.result = Ok(key),
                                  !.generated = @ + 1, !.writes = @ + 1]
    /\ UNCHANGED <<callstate, audio, json, selection, bus>>

\* keypair.rs 56-68: load_or_create.  An existing file is loaded; with no
\* file a key is generated and saved (93-112), and a failure to create the
\* directory or to write the file is returned in place of the key.
LoadOrCreate(disk_ok) ==
    /\ used.loads < MaxLoads
    /\ used' = Spend("loads")
    /\ LET key == GeneratedKeys[keystore.generated + 1]
       IN keystore' =
            IF Exists(keystore.file)
            THEN [keystore EXCEPT !.result = LoadFromFile(keystore.file)]
            ELSE IF disk_ok
            THEN [keystore EXCEPT !.file = KeyFile(key), !.result = Ok(key),
                                  !.generated = @ + 1, !.writes = @ + 1]
            ELSE [keystore EXCEPT !.result = Err([kind |-> "IoError"]),
                                  !.generated = @ + 1]
    /\ UNCHANGED <<callstate, audio, json, selection, bus>>

\* The user removes the key file between two runs.
RemoveKeyFile ==
    /\ used.loads < MaxLoads
    /\ used' = Spend("loads")
    /\ Exists(keystore.file)
    /\ keystore' = [keystore EXCEPT !.file = NoFile]
    /\ UNCHANGED <<callstate, audio, json, selection, bus>>

InitKeys ==
    /\ InitCall
    /\ audio = NoHandler
    /\ keystore \in {[NoKeys EXCEPT !.file = f] : f \in {NoFile} \cup StoredFiles}
    /\ json = NoJson
    /\ selection = NoSelection
    /\ bus = NoBus

NextKeys ==
    \/ \E disk_ok \in BOOLEAN : LoadOrCreate(disk_ok)
    \/ RemoveKeyFile

SpecKeys == InitKeys /\ [][NextKeys]_vars

\* ===================================================== canonical JSON form
\* serde_json::Value, by the kinds the model tells apart: numbers, arrays
\* and objects.  An object is the sequence of its key-value pairs, in the
\* order the map holds them; its keys are distinct.
Num(n) == [num |-> n]
Arr(items) == [arr |-> items]
Obj(pairs) == [obj |-> pairs]
IsNum(x) == DOMAIN x = {"num"}
IsArr(x) == DOMAIN x = {"arr"}
IsObj(x) == DOMAIN x = {"obj"}

\* The keys of the model's objects, in the order `keys.sort()` puts them.
JsonKeys == <<"a", "b", "signature">>

\* map.keys() and map.get(key).
MapKeys(x) == {x.obj[i][1] : i \in DOMAIN x.obj}
MapGet(x, k) == x.obj[CHOOSE i \in DOMAIN x.obj : x.obj[i][1] = k][2]

\* map.insert(key, value): the value of a key the map holds is replaced
\* in place, a new key is added at the end.
MapInsert(x, k, value) ==
    IF k \in MapKeys(x)
    THEN Obj([i \in DOMAIN x.obj |->
                IF x.obj[i][1] = k THEN <<k, value>> ELSE x.obj[i]])
    ELSE Obj(Append(x.obj, <<k, value>>))

\* map.remove(key).
MapRemove(x, k) == Obj(SelectSeq(x.obj, LAMBDA p : p[1] # k))

\* A canonical form that would keep the signature field.
RECURSIVE SortJsonValue_KeepsSignature(_)
SortJsonValue_KeepsSignature(value) ==
    IF IsObj(value)
    THEN LET keys == SelectSeq(JsonKeys, LAMBDA k : k \in MapKeys(value))
         IN Obj([i \in DOMAIN keys |->
                   <<keys[i],
                     SortJsonValue_KeepsSignature(MapGet(value, keys[i]))>>])
    ELSE value

\* A canonical form that would turn the order of the fields around.
RECURSIVE SortJsonValue_Reverses(_)
SortJsonValue_Reverses(value) ==
    IF IsObj(value)
    THEN LET kept == SelectSeq(value.obj, LAMBDA q : q[1] # "signature")
         IN Obj([i \in DOMAIN kept |->
                   <<kept[Len(kept) + 1 - i][1],
                     SortJsonValue_Reverses(kept[Len(kept) + 1 - i][2])>>])
    ELSE value

\* keypair.rs 170-187: sort_json_object on any value.  An object is
\* rebuilt from its sorted keys, "signature" skipped, each value sorted in
\* turn; every other value, an array included, is cloned.
RECURSIVE SortJsonValue(_)
SortJsonValue(value) ==
    IF IsObj(value)
    THEN LET keys == SelectSeq(JsonKeys,
                               LAMBDA k : k \in MapKeys(value) /\ k # "signature")
         IN Obj([i \in DOMAIN keys |->
                   <<keys[i], SortJsonValue(MapGet(value, keys[i]))>>])
    ELSE value

\* serde_json::to_string: the compact text of a value, as its tokens.
DigitText == <<"0", "1">>
RECURSIVE JsonText(_), ItemsText(_), PairsText(_)
ItemsText(items) ==
    IF items = <<>> THEN <<>>
    ELSE JsonText(Head(items))
         \o (IF Len(items) > 1 THEN <<",">> ELSE <<>>)
         \o ItemsText(Tail(items))
PairsText(pairs) ==
    IF pairs = <<>> THEN <<>>
    ELSE <<Head(pairs)[1], ":">> \o JsonText(Head(pairs)[2])
         \o (IF Len(pairs) > 1 THEN <<",">> ELSE <<>>)
         \o PairsText(Tail(pairs))
JsonText(value) ==
    IF IsNum(value) THEN <<DigitText[value.num + 1]>>
    ELSE IF IsArr(value) THEN <<"[">> \o ItemsText(value.arr) \o <<"]">>
    ELSE <<"{">> \o PairsText(value.obj) \o <<"}">>

\* keypair.rs 162-167: sign_message on any value.
SignJson(payload) == Sign(KeyPair, JsonText(SortJsonValue(payload)))

\* ------------------------------------------------------- the values given
MaxFields == 2   \* key-value pairs of an object
MaxItems == 2    \* elements of an array

\* The sequences of at most n distinct keys.
KeySeqs(n) ==
    UNION {{ks \in [1..m -> {"a", "b", "signature"}] :
              \A i \in 1..m, j \in 1..m : ks[i] = ks[j] => i = j} : m \in 0..n}

ObjectsOver(values) ==
    UNION {{Obj([i \in DOMAIN ks |-> <<ks[i], vs[i]>>]) :
              vs \in [DOMAIN ks -> values]} : ks \in KeySeqs(MaxFields)}

ArraysOver(values) ==
    UNION {{Arr(vs) : vs \in [1..m -> values]} : m \in 0..MaxItems}

\* Numbers; then objects and arrays of them; then objects and arrays of
\* those; and those again as the only field of an object or the only
\* element of an array.
Leaves == {Num(0), Num(1)}
Values1 == Leaves \cup ObjectsOver(Leaves) \cup ArraysOver(Leaves)
Values2 == Values1 \cup ObjectsOver(Values1) \cup ArraysOver(Values1)
JsonValues ==
    Values2 \cup {Obj(<<<<"a", v>>>>) : v \in Values2}
            \cup {Arr(<<v>>) : v \in Values2}

\* The signature fields put into an object.
Signatures == {Num(1), Arr(<<Num(0)>>)}

\* A value and what has been computed from it: its canonical form, the
\* canonical form of that, the signatures of both, the value with its
\* signature field put in or taken out, and the canonical form and the
\* signature of that.
GivenJson(x) ==
    [given |-> TRUE, x |-> x, sorted |-> NoRes, resorted |-> NoRes,
     signed |-> NoRes, signed_sorted |-> NoRes, edited |-> NoRes,
     sorted_edited |-> NoRes, signed_edited |-> NoRes]

InitJson ==
    /\ InitCall
    /\ audio = NoHandler
    /\ keystore = NoKeys
    /\ json \in {GivenJson(x) : x \in JsonValues}
    /\ selection = NoSelection
    /\ bus = NoBus

jsonframe == <<callstate, used, audio, keystore, selection, bus>>

\* sort_json_object(x).
SortValue ==
    /\ json.sorted = NoRes
    /\ json' = [json EXCEPT !.sorted = Ok(SortJsonValue(json.x))]
    /\ UNCHANGED jsonframe

\* sort_json_object on the canonical form.
SortAgain ==
    /\ json.sorted # NoRes /\ json.resorted = NoRes
    /\ json' = [json EXCEPT !.resorted = Ok(SortJsonValue(json.sorted.value))]
    /\ UNCHANGED jsonframe

\* sign_message(x).
SignValue ==
    /\ json.resorted # NoRes /\ json.signed = NoRes
    /\ json' = [json EXCEPT !.signed = Ok(SignJson(json.x))]
    /\ UNCHANGED jsonframe

\* sign_message on the canonical form.
SignSorted ==
    /\ json.signed # NoRes /\ json.signed_sorted = NoRes
    /\ json' = [json EXCEPT !.signed_sorted = Ok(SignJson(json.sorted.value))]
    /\ UNCHANGED jsonframe

\* The caller puts a signature field into the object x, or takes it out.
EditSignature(op, s) ==
    /\ json.signed_sorted # NoRes /\ json.edited = NoRes
    /\ IsObj(json.x)
    /\ op = "remove" => "signature" \in MapKeys(json.x)
    /\ json' = [json EXCEPT !.edited =
                  Ok(IF op = "remove" THEN MapRemove(json.x, "signature")
                     ELSE MapInsert(json.x, "signature", s))]
    /\ UNCHANGED jsonframe

\* sort_json_object on the edited object.
SortEdited ==
    /\ json.edited # NoRes /\ json.sorted_edited = NoRes
    /\ json' = [json EXCEPT
                  !.sorted_edited = Ok(SortJsonValue(json.edited.value))]
    /\ UNCHANGED jsonframe

\* sign_message on the edited object.
SignEdited ==
    /\ json.sorted_edited # NoRes /\ json.signed_edited = NoRes
    /\ json' = [json EXCEPT !.signed_edited = Ok(SignJson(json.edited.value))]
    /\ UNCHANGED jsonframe

NextJson ==
    \/ SortValue
    \/ SortAgain
    \/ SignValue
    \/ SignSorted
    \/ \E op \in {"insert", "remove"}, s \in Signatures : EditSignature(op, s)
    \/ SortEdited
    \/ SignEdited

SpecJson == InitJson /\ [][NextJson]_vars

\* ==================================================== select_best_config
MaxConfigs == 3   \* configurations a device reports

\* The configurations a device may report: a range below 48 kHz, one that
\* contains it and one above it, as f32 or i16, mono or stereo.
RateRanges == {<<8000, 24000>>, <<44100, 96000>>, <<96000, 192000>>}
SupportedConfigs ==
    {ConfigRange(r[1], r[2], fmt, ch) :
        r \in RateRanges, fmt \in {"F32", "I16"}, ch \in {1, 2}}
ConfigLists == UNION {[1..n -> SupportedConfigs] : n \in 0..MaxConfigs}

InitSelect ==
    /\ InitCall
    /\ audio = NoHandler
    /\ keystore = NoKeys
    /\ json = NoJson
    /\ selection \in {[given |-> TRUE, configs |-> cs, result |-> NoRes] :
                        cs \in ConfigLists}
    /\ bus = NoBus

\* audio.rs 321-336: find_best_input_config / find_best_output_config hand
\* the reported configurations to select_best_config.
FindBestConfig ==
    /\ selection.result = NoRes
    /\ selection' = [selection EXCEPT !.result = SelectBestConfig(selection.configs)]
    /\ UNCHANGED <<callstate, used, audio, keystore, json, bus>>

NextSelect == FindBestConfig

SpecSelect == InitSelect /\ [][NextSelect]_vars

\* ==================================================== the broadcast channels
\* client.rs 125 and engine.rs 132: `broadcast::channel(100)`.
BroadcastCapacity == 100
MaxEvents == 130     \* events sent on the broadcast channel

\* The slots of the channel: tokio allocates the next power of two of the
\* capacity asked for, and keeps that many of the latest values.
BufferSize ==
    CHOOSE n \in {2 ^ k : k \in 0..10} :
        n >= BroadcastCapacity /\ n \div 2 < BroadcastCapacity

\* The two loops of connect_and_register that receive from a broadcast
\* channel: the signaling-event loop (lib.rs 131-135) on the client's
\* channel and the call-event loop (lib.rs 152-196) on the engine's.
EventLoops == {"signaling", "call"}

\* A channel whose sender exists, with the loop subscribed to it: sent
\* counts the events sent, next those the receiver has gone past, handled
\* those the loop's body has run for.
InitBroadcast ==
    /\ InitCall
    /\ audio = NoHandler
    /\ keystore = NoKeys
    /\ json = NoJson
    /\ selection = NoSelection
    /\ bus \in {[loop |-> l, status |-> "running", sent |-> 0, next |-> 0,
                 handled |-> 0] : l \in EventLoops}

\* client.rs and engine.rs `event_tx.send(..)`: one more event on the channel.
BroadcastSend ==
    /\ bus.loop # "none"
    /\ bus.sent < MaxEvents
    /\ bus' = [bus EXCEPT !.sent = @ + 1]
    /\ UNCHANGED <<callstate, used, audio, keystore, json, selection>>

\* What `rx.recv().await` returns: Lagged when the value the receiver is at
\* has been overwritten, the value when there is one; else it waits.
Recv(b) ==
    IF b.next < b.sent - BufferSize THEN Err("Lagged")
    ELSE IF b.next < b.sent THEN Ok(b.next + 1)
    ELSE NoRes

\* lib.rs 131-135 and 152-196: `while let Ok(event) = rx.recv().await
\* { .. }`.  The body runs for an event; any Err ends the loop.
LoopRecv ==
    /\ bus.loop # "none" /\ bus.status = "running"
    /\ Recv(bus) # NoRes
    /\ bus' = IF Recv(bus).status = "Ok"
              THEN [bus EXCEPT !.next = @ + 1, !.handled = @ + 1]
              ELSE [bus EXCEPT !.status = "ended"]
    /\ UNCHANGED <<callstate, used, audio, keystore, json, selection>>

NextBroadcast ==
    \/ BroadcastSend
    \/ LoopRecv

SpecBroadcast == InitBroadcast /\ [][NextBroadcast]_vars

\* ====================================================================== claims
\* Task t begins operation o in this step.
Begins(t, o) ==
    /\ CommandReady(t)
    /\ used'.ops = used.ops + 1
    /\ procs'[t].op = o

\* C1: start_call passes its guard only when the call state is Idle, and
\* accept_call only when it is Ringing or Idle; in any other state the
\* operation returns AlreadyInCall at once, and that step changes neither the
\* call state, the stored peer connection, the audio handler nor the events.
C1_GuardRefuses ==
    [][\A t \in Procs :
        /\ Begins(t, "start_call") =>
              IF state = Idle
              THEN procs'[t].pc = "set_state" /\ procs'[t].res = NoRes
              ELSE /\ procs'[t].pc = "done"
                   /\ procs'[t].res = Err("AlreadyInCall")
                   /\ UNCHANGED engine
        /\ Begins(t, "accept_call") =>
              IF state.tag \in {"Ringing", "Idle"}
              THEN procs'[t].pc = "set_state" /\ procs'[t].res = NoRes
              ELSE /\ procs'[t].pc = "done"
                   /\ procs'[t].res = Err("AlreadyInCall")
                   /\ UNCHANGED engine]_vars

\* C1 witness: start_call and accept_call have been refused, one of them
\* while the call state was Ended.
C1_Witness ==
    /\ state = Ended
    /\ procs["t1"].op = "start_call" /\ procs["t1"].res = Err("AlreadyInCall")
    /\ procs["t1"].pc = "done"

\* C2: at most one invocation of start_call / accept_call is past the state
\* guard at a time.
PastGuard(t) ==
    /\ procs[t].op \in {"start_call", "accept_call"}
    /\ procs[t].pc \in {"set_state", "emit", "negotiate", "store_pc", "init_audio"}

C2_OneCallAtATime == Cardinality({t \in Procs : PastGuard(t)}) <= 1

\* C3: when end_call (or reject_call) has returned and nothing else has
\* written the engine meanwhile, the call state is Ended, no peer connection
\* and no audio handler is stored, StateChanged(Ended) has been emitted and
\* the Idle timer is pending; the timer's write sets Idle, its send emits
\* StateChanged(Idle), and so the state becomes Idle.
EndCallReturned(t) ==
    /\ procs[t].op \in EndCallOps
    /\ procs[t].res = Ok(0)

C3_AtReturn ==
    \A t \in Procs :
        EndCallReturned(t) /\ procs[t].quiet =>
            /\ state = Ended
            /\ peer_connection = 0
            /\ audio_handler = 0
            /\ procs[t].sent = <<Ended>>
            /\ timers.sleeping > 0

C3_TimerSteps ==
    /\ timers'.sleeping < timers.sleeping =>
          state' = Idle /\ timers'.written = timers.written + 1
    /\ timers'.written < timers.written =>
          /\ event_tx'.last = Idle
          /\ event_tx'.sent = event_tx.sent + 1

C3_EndCallEndsThenIdle ==
    /\ []C3_AtReturn
    /\ [][C3_TimerSteps]_vars
    /\ (\E t \in Procs : EndCallReturned(t) /\ procs[t].quiet) ~> (state = Idle)

\* C3 witness: hangup of an established outgoing call has returned
\* undisturbed; the connection it took is being closed.
C3_Witness ==
    /\ procs["t1"].op = "hangup" /\ EndCallReturned("t1") /\ procs["t1"].quiet
    /\ state = Ended
    /\ Len(pcs) = 1 /\ pcs[1].conn = "closing"

\* C4: whatever set the call state to Ended, the state becomes Idle without
\* a further command.
C4_EndedIsTransient == (state = Ended) ~> (state = Idle)

\* C5: the RTC callback follows the transition table.  A report computes the
\* new state from the state it reads (Connected while Calling{p} or
\* Connecting{p} gives Connected{p}; Disconnected, Failed and Closed give
\* Ended from any state; everything else gives no change) and changes
\* nothing itself; the change is then written and StateChanged(new) emitted.
RtcTable(s, current) ==
    CASE s = "Connected" /\ current.tag \in {"Calling", "Connecting"} ->
            Connected(current.peer_id)
      [] s = "Connected" /\ current.tag \in {"Idle", "Ringing", "Connected", "Ended"} ->
            None
      [] s \in {"Disconnected", "Failed", "Closed"} -> Ended
      [] OTHER -> None

C5_RtcTransitionTable ==
    [][/\ \A id \in DOMAIN pcs, s \in RtcStates :
             OnPeerConnectionStateChange(id, s) =>
                 /\ UNCHANGED engine
                 /\ IF RtcTable(s, state) = None
                    THEN cb' = [pc |-> "idle"]
                    ELSE cb' = [pc |-> "write", new |-> RtcTable(s, state)]
       /\ cb.pc = "write" /\ cb' # cb =>
             /\ state' = cb.new
             /\ cb' = [cb EXCEPT !.pc = "emit"]
             /\ UNCHANGED <<peer_connection, audio_handler, event_tx, timers>>
       /\ cb.pc = "emit" /\ cb' # cb =>
             /\ event_tx' = [sent |-> event_tx.sent + 1, last |-> cb.new]
             /\ cb' = [pc |-> "idle"]
             /\ UNCHANGED <<state, peer_connection, audio_handler, timers>>]_vars

\* C5 witness: the callback has written Connected{p} for an accepted call
\* and is about to emit it.
C5_Witness ==
    /\ cb.pc = "emit" /\ cb.new = Connected("p1")
    /\ state = Connected("p1")

\* C6: when start_call / accept_call has returned an RTC error and nothing
\* else has written the engine meanwhile, the call state is Ended.
C6_FailedCallEnds ==
    \A t \in Procs :
        /\ procs[t].op \in {"start_call", "accept_call"}
        /\ procs[t].res = Err("WebRTC")
        /\ procs[t].quiet
        => state = Ended

\* C7: an ice_candidate message for an outgoing call's peer is on the
\* outbound queue only behind that call's offer.
C7_OfferBeforeCandidates ==
    \A i \in DOMAIN outbound :
        LET m == outbound[i] IN
        (/\ m.type = "ice_candidate"
         /\ pcs[m.body].role = "offerer"
         /\ m.to = pcs[m.body].peer)
        => \E j \in 1..(i - 1) :
               /\ outbound[j].type = "offer"
               /\ outbound[j].to = m.to
               /\ outbound[j].body = Sdp(m.body)

\* C8: handle_answer and add_ice_candidate, begun while no peer connection
\* is stored, return NoActiveCall at once; that step changes no engine field,
\* no connection, no callback or timer, and emits no event.
C8_NoActiveCall ==
    [][\A t \in Procs :
        /\ Begins(t, "AnswerReceived") \/ Begins(t, "IceCandidateReceived")
        /\ peer_connection = 0
        => /\ procs'[t].pc = "done"
           /\ procs'[t].res = Err("NoActiveCall")
           /\ UNCHANGED <<engine, pcs, cb, timers>>]_vars

\* C8 witness: an answer arrived while no connection was stored and was
\* refused.
C8_Witness ==
    \E t \in Procs :
        /\ procs[t].op = "AnswerReceived"
        /\ procs[t].res = Err("NoActiveCall")
        /\ peer_connection = 0

\* C9: when start_call(p) / accept_call(p, offer) has returned Ok and nothing
\* else has written the engine meanwhile, the call state is Calling{p} /
\* Connecting{p} and has been emitted, the stored peer connection and the
\* audio handler are the ones this call created, and the returned SDP is the
\* connection's local description.
C9_Returned(t, o) ==
    /\ procs[t].op = o
    /\ procs[t].res \notin {NoRes} /\ procs[t].res.status = "Ok"
    /\ procs[t].quiet

C9_Created(t) ==
    /\ procs[t].mypc \in DOMAIN pcs
    /\ pcs[procs[t].mypc].peer = procs[t].peer
    /\ peer_connection = procs[t].mypc
    /\ audio_handler = procs[t].mypc
    /\ procs[t].res.value = pcs[procs[t].mypc].local
    /\ pcs[procs[t].mypc].local # 0

C9_SuccessfulCall ==
    \A t \in Procs :
        /\ C9_Returned(t, "start_call") =>
              /\ procs[t].saw = Idle
              /\ state = Calling(procs[t].peer)
              /\ procs[t].sent = <<Calling(procs[t].peer)>>
              /\ C9_Created(t)
        /\ C9_Returned(t, "accept_call") =>
              /\ procs[t].saw.tag \in {"Ringing", "Idle"}
              /\ state = Connecting(procs[t].peer)
              /\ procs[t].sent = <<Connecting(procs[t].peer)>>
              /\ C9_Created(t)

\* C9 witness: an accept_call that found the state Ringing has returned its
\* answer undisturbed.
C9_Witness ==
    \E t \in Procs :
        /\ C9_Returned(t, "accept_call")
        /\ procs[t].saw.tag = "Ringing"
        /\ state = Connecting(procs[t].peer)

\* C10: when connect_and_register returns because an error reply of the
\* server reached it on the registration channel, what it returns is
\* RegistrationFailed.
C10_ErrorIsRegistrationFailed ==
    (conn.pc = "done" /\ conn.reply.status = "Err")
        => conn.result.error.kind = "RegistrationFailed"

\* C11: connect_and_register leaves its wait for the registration reply:
\* when it returns while the registration channel is empty, it returns
\* RegistrationFailed("Timeout"), and every wait ends.
C11_TimeoutEndsWait ==
    /\ [][(conn.pc = "wait" /\ conn'.pc = "done" /\ reg_rx = <<>>)
             => conn'.result = Err(RegistrationFailed("Timeout"))]_vars
    /\ (conn.pc = "wait") ~> (conn.pc = "done")

\* C11 witness: the server never replied to register and the wait has ended
\* with the timeout.
C11_Witness ==
    /\ conn.pc = "done"
    /\ conn.result = Err(RegistrationFailed("Timeout"))
    /\ used.replies = 0
    /\ \E i \in DOMAIN ws_write : ws_write[i].type = "register"

\* C12: a registered{peerId, username} reply makes connect_and_register
\* return Ok(peerId); from the moment the reply is on the registration
\* channel, and so when the Registered event is sent and ever after, the
\* client state holds that peerId and username.
Populated(p, u) == client_state.peer_id = p /\ client_state.username = u

C12_StateWhileHandling ==
    /\ (reader.pc \in {"reg_send", "emit"} /\ reader.msg.type = "registered")
          => Populated(reader.msg.peer_id, reader.msg.username)
    /\ \A i \in DOMAIN reg_rx :
          reg_rx[i].status = "Ok" => client_state.peer_id = reg_rx[i].value
    /\ (conn.pc = "done" /\ conn.reply.status = "Ok")
          => /\ conn.result = Ok(client_state.peer_id)
             /\ conn.reply = conn.result
    /\ \A i \in DOMAIN signaling_event_tx :
          signaling_event_tx[i].type = "Registered"
             => Populated(signaling_event_tx[i].peer_id,
                          signaling_event_tx[i].username)

C12_RegisteredReply ==
    /\ []C12_StateWhileHandling
    /\ [][(Len(signaling_event_tx') > Len(signaling_event_tx)
            /\ signaling_event_tx'[Len(signaling_event_tx')].type = "Registered")
           => /\ UNCHANGED client_state
              /\ Populated(reader.msg.peer_id, reader.msg.username)
              /\ signaling_event_tx'[Len(signaling_event_tx')] =
                    [type |-> "Registered", peer_id |-> client_state.peer_id,
                     username |-> client_state.username]]_vars

\* C12 witness: the server registered the client as p-2 / bobby,
\* connect_and_register has returned Ok("p-2") and Registered was broadcast.
C12_Witness ==
    /\ conn.pc = "done" /\ conn.result = Ok("p-2")
    /\ Populated("p-2", "bobby")
    /\ \E i \in DOMAIN signaling_event_tx :
          signaling_event_tx[i] =
             [type |-> "Registered", peer_id |-> "p-2", username |-> "bobby"]

\* A tick of a heartbeat task that calls send_heartbeat_sync.
HeartbeatCall ==
    /\ used'.ticks = used.ticks + 1
    /\ signaling = "Some" /\ client_state.is_connected

\* The call appended exactly one message, a heartbeat, and returned Ok.
AppendedOne ==
    /\ Len(outbound') = Len(outbound) + 1
    /\ SubSeq(outbound', 1, Len(outbound)) = outbound
    /\ outbound'[Len(outbound')].type = "heartbeat"
    /\ \E i \in DOMAIN heartbeat :
          heartbeat[i].pc = "running" /\ heartbeat'[i].last = Ok(0)

\* The call returned SendFailed and left the queue as it was.
RefusedSend ==
    /\ outbound' = outbound
    /\ \E i \in DOMAIN heartbeat :
          heartbeat[i].pc = "running" /\ heartbeat'[i].last = Err(SendFailed)

\* C13: a non-blocking send is one step.  It returns SendFailed and leaves
\* the queue unchanged when the queue holds 100 messages or the write task
\* has ended, otherwise it appends exactly one message; the queue never
\* holds more than 100 messages.
C13_NonBlockingSend ==
    /\ [](Len(outbound) <= OutboundCapacity)
    /\ [][HeartbeatCall =>
            IF Len(outbound) = OutboundCapacity \/ writer = "stopped"
            THEN RefusedSend ELSE AppendedOne]_vars

\* C13 as stated: the send is refused only when the queue holds 100
\* messages, and appends one message in every other case.
C13_RefusedOnlyWhenFull ==
    [][HeartbeatCall =>
        IF Len(outbound) = OutboundCapacity
        THEN RefusedSend ELSE AppendedOne]_vars

C13_Witness ==
    /\ Len(outbound) = OutboundCapacity
    /\ writer = "running"
    /\ \E i \in DOMAIN heartbeat : heartbeat[i].last = Err(SendFailed)

\* The frames the read task is done with: those taken from the socket,
\* but for the one whose message handle_server_message is working on.
FramesHandled ==
    LET taken == Len(ws_sent) - Len(ws_read)
    IN SubSeq(ws_sent, 1,
              IF reader.pc \in {"write_state", "reg_send", "emit"}
              THEN taken - 1 ELSE taken)

\* The events of a sequence of frames: one for each text frame that
\* deserializes to a message other than pong, in the frames' order.
Eventful(f) == f.ws = "text" /\ WellFormed(f.body) /\ f.body.type # "pong"
EventsOfFrames(frames) ==
    LET e == SelectSeq(frames, Eventful)
    IN [i \in DOMAIN e |-> EventFor(ParseServerMessage(e[i].body))]

\* The events of signaling_event_tx that come from frames.
EventsFromFrames ==
    SelectSeq(signaling_event_tx,
              LAMBDA e : e.type \notin {"Connected", "Disconnected"})

\* C14: while the write task runs, what is written followed by what is
\* queued only grows at its end, so that messages reach the socket in the
\* order they were enqueued, none twice and none skipped, and a queued
\* message is written unless the write task ends; the events broadcast for
\* frames are those of the frames handled, in the order the server sent them.
C14_InOrder ==
    /\ [][writer' = "running" =>
            /\ Len(ws_write' \o outbound') >= Len(ws_write \o outbound)
            /\ SubSeq(ws_write' \o outbound', 1, Len(ws_write \o outbound))
                  = ws_write \o outbound]_vars
    /\ [](EventsFromFrames = EventsOfFrames(FramesHandled))
    /\ (outbound # <<>> /\ writer = "running")
          ~> (outbound = <<>> \/ writer = "stopped")

\* C14 witness: three different messages were enqueued and written in that
\* order, and two frames were handled in the order they were sent.
C14_Witness ==
    /\ Len(ws_write) = 3 /\ writer = "running"
    /\ ws_write[1].type = "register"
    /\ ws_write[2].type = "find_user" /\ ws_write[2].body = "carol"
    /\ ws_write[3].type = "find_user" /\ ws_write[3].body = "bob"
    /\ Len(ws_sent) = 2
    /\ ws_sent[2] = TextFrame([type |-> "user_online", peerId |-> "p1",
                                timestamp |-> 0])
    /\ Len(signaling_event_tx) = 3
    /\ signaling_event_tx[2].type = "Registered"
    /\ signaling_event_tx[3].type = "ContactOnline"

\* A message without its signature, and its canonical form: its key-value
\* pairs in the alphabetic order of the keys.
WithoutSignature(m) == [k \in DOMAIN m \ {"signature"} |-> m[k]]
CanonicalForm(v) ==
    LET keys == SelectSeq(<<"body", "timestamp", "to", "type">>,
                          LAMBDA k : k \in DOMAIN v)
    IN [i \in DOMAIN keys |-> <<keys[i], v[keys[i]]>>]

\* Message m carries a timestamp and the identity's signature over the
\* canonical form of the rest of it, timestamp included.
SignedWithTimestamp(m) ==
    /\ {"timestamp", "signature"} \subseteq DOMAIN m
    /\ m.signature = Sign(KeyPair, CanonicalForm(WithoutSignature(m)))
    /\ \E i \in DOMAIN m.signature.over :
          m.signature.over[i] = <<"timestamp", m.timestamp>>

\* C15: every message on the outbound queue, and every message written
\* from it, carries a timestamp and the signature of the identity over the
\* canonical form of the message without the signature.
C15_SignedMessages ==
    /\ \A i \in DOMAIN outbound : SignedWithTimestamp(outbound[i])
    /\ \A i \in DOMAIN ws_write : SignedWithTimestamp(ws_write[i])

\* C15 witness: the register message of the awaiting path is written and a
\* find_user message of the non-blocking path is queued.
C15_Witness ==
    /\ \E i \in DOMAIN ws_write : ws_write[i].type = "register"
    /\ \E i \in DOMAIN outbound : outbound[i].type = "find_user"

\* The read task takes a text frame that is no JSON object, has an unknown
\* type, or lacks a required field.
TakesBadText ==
    /\ ws_read # <<>> /\ ws_read' = Tail(ws_read)
    /\ Head(ws_read).ws = "text"
    /\ \/ "type" \notin DOMAIN Head(ws_read).body
       \/ Head(ws_read).body.type = "bogus"
       \/ /\ Head(ws_read).body.type = "user_online"
          /\ "peerId" \notin DOMAIN Head(ws_read).body

\* C16: a text frame that does not deserialize to a server message is
\* dropped: no event is sent, the client state and the registration channel
\* are unchanged, the connection stays up and the read task goes on to the
\* next frame.
C16_BadFrameDropped ==
    [][TakesBadText =>
        /\ UNCHANGED <<client_state, signaling_event_tx, reg_rx, outbound,
                       ws_write, conn, writer>>
        /\ reader' = [pc |-> "recv"]]_vars

\* C16 witness: a frame with an unknown type was dropped while connected,
\* and the frame after it was handled.
C16_Witness ==
    /\ Len(ws_sent) = 2 /\ ws_read = <<>>
    /\ ws_sent[1] = TextFrame([type |-> "bogus", timestamp |-> 0])
    /\ ws_sent[2] = TextFrame([type |-> "user_online", peerId |-> "p1",
                                timestamp |-> 0])
    /\ client_state.is_connected
    /\ signaling_event_tx =
          <<[type |-> "Connected"], [type |-> "ContactOnline", peer_id |-> "p1"]>>

\* How many Disconnected events were sent.
DisconnectedSent ==
    Cardinality({i \in DOMAIN signaling_event_tx :
                    signaling_event_tx[i].type = "Disconnected"})

\* The server has closed the socket, or the stream has failed, and the read
\* task has not taken that frame yet.
ClosePending == \E i \in DOMAIN ws_read : ws_read[i].ws \in {"close", "error"}

\* C17: once the server has closed the socket or the stream has failed,
\* the read task ends; then is_connected is false and exactly one
\* Disconnected was sent, as the last event, after the events of all the
\* frames sent before the close.  Disconnected is never sent twice.
C17_ClosedConnection ==
    /\ ClosePending ~> (reader.pc = "stopped")
    /\ [](DisconnectedSent <= 1)
    /\ [](reader.pc = "stopped" =>
            /\ ~client_state.is_connected
            /\ DisconnectedSent = 1
            /\ signaling_event_tx[Len(signaling_event_tx)].type = "Disconnected"
            /\ EventsFromFrames =
                  EventsOfFrames(SubSeq(ws_sent, 1, Len(ws_sent) - 1)))

\* C17 witness: the server sent user_online and closed the socket; the
\* read task has ended after ContactOnline and Disconnected.
C17_Witness ==
    /\ reader.pc = "stopped" /\ ~client_state.is_connected
    /\ ws_sent = <<TextFrame([type |-> "user_online", peerId |-> "p1",
                               timestamp |-> 0]), CloseFrame>>
    /\ signaling_event_tx =
          <<[type |-> "Connected"], [type |-> "ContactOnline", peer_id |-> "p1"],
            [type |-> "Disconnected"]>>

\* The kind of event of each kind of server message, and for each kind of
\* event its fields with the JSON keys they are taken from.
EventKindOf ==
    [registered |-> "Registered", user_found |-> "UserFound",
     user_not_found |-> "UserNotFound", incoming_offer |-> "IncomingCall",
     incoming_answer |-> "AnswerReceived",
     incoming_ice_candidate |-> "IceCandidateReceived",
     call_rejected |-> "CallRejected", call_ended |-> "CallEnded",
     user_online |-> "ContactOnline", user_offline |-> "ContactOffline",
     error |-> "Error"]
EventFieldsOf ==
    [Registered |-> {<<"peer_id", "peerId">>, <<"username", "username">>},
     UserFound |-> {<<"peer_id", "peerId">>, <<"username", "username">>,
                    <<"is_online", "isOnline">>},
     UserNotFound |-> {<<"username", "username">>},
     IncomingCall |-> {<<"from_peer_id", "fromPeerId">>,
                       <<"from_username", "fromUsername">>, <<"sdp", "sdp">>},
     AnswerReceived |-> {<<"from_peer_id", "fromPeerId">>, <<"sdp", "sdp">>},
     IceCandidateReceived |-> {<<"from_peer_id", "fromPeerId">>,
                               <<"candidate", "candidate">>},
     CallRejected |-> {<<"by_peer_id", "byPeerId">>, <<"reason", "reason">>},
     CallEnded |-> {<<"by_peer_id", "byPeerId">>},
     ContactOnline |-> {<<"peer_id", "peerId">>},
     ContactOffline |-> {<<"peer_id", "peerId">>},
     Error |-> {<<"code", "code">>, <<"message", "message">>}]

\* Event e is the event of the matching kind for the JSON body j, with j's
\* fields.
EventMatches(e, j) ==
    /\ e.type = EventKindOf[j.type]
    /\ DOMAIN e = {"type"} \cup {p[1] : p \in EventFieldsOf[e.type]}
    /\ \A p \in EventFieldsOf[e.type] :
          e[p[1]] = IF p[2] \in DOMAIN j THEN j[p[2]] ELSE "None"

\* The read task takes a pong frame.
TakesPong ==
    /\ ws_read # <<>> /\ ws_read' = Tail(ws_read)
    /\ Head(ws_read) = TextFrame([type |-> "pong", timestamp |-> 0])

\* C18: the events sent for frames are, one for each well-formed server
\* message other than pong that was handled, the event of the matching kind
\* with the message's fields; a pong sends no event and changes no state.
C18_Demultiplexed ==
    /\ [](LET handled == SelectSeq(FramesHandled, Eventful)
          IN /\ Len(EventsFromFrames) = Len(handled)
             /\ \A i \in DOMAIN handled :
                   EventMatches(EventsFromFrames[i], handled[i].body))
    /\ [][TakesPong =>
            /\ UNCHANGED <<client_state, signaling_event_tx, reg_rx, outbound,
                           ws_write, conn, writer>>
            /\ reader' = [pc |-> "recv"]]_vars

\* C18 witness: an incoming_offer was handled, and then a pong was taken.
C18_Witness ==
    /\ ws_sent = <<TextFrame([type |-> "incoming_offer", fromPeerId |-> "p1",
                               fromUsername |-> "bob", sdp |-> "v=0",
                               timestamp |-> 0]),
                   TextFrame([type |-> "pong", timestamp |-> 0])>>
    /\ ws_read = <<>> /\ reader.pc = "recv"
    /\ signaling_event_tx =
          <<[type |-> "Connected"],
            [type |-> "IncomingCall", from_peer_id |-> "p1",
             from_username |-> "bob", sdp |-> "v=0"]>>

\* A heartbeat task's interval ticks.
HeartbeatTicks == used'.ticks = used.ticks + 1

\* One message more is queued: a signed heartbeat with the client's peer id.
HeartbeatEmitted ==
    /\ Len(outbound') = Len(outbound) + 1
    /\ SubSeq(outbound', 1, Len(outbound)) = outbound
    /\ outbound'[Len(outbound')].type = "heartbeat"
    /\ outbound'[Len(outbound')].body = client_state.peer_id
    /\ SignedWithTimestamp(outbound'[Len(outbound')])

\* C19: at every tick of a heartbeat task, if the stored client is
\* connected and registered a signed heartbeat with its peer id is emitted;
\* if not, none is emitted and the task stops.
C19_HeartbeatEveryTick ==
    [][HeartbeatTicks =>
        IF /\ signaling = "Some" /\ client_state.is_connected
           /\ client_state.peer_id # ""
        THEN HeartbeatEmitted
        ELSE /\ outbound' = outbound
             /\ \E i \in DOMAIN heartbeat :
                   heartbeat[i].pc = "running" /\ heartbeat'[i].pc = "stopped"]_vars

\* The signaling-event handlers that are inside handle_signaling_event.
Handling == {t \in Procs : ~Free(t) /\ procs[t].op \in SigOps}

\* What the first step of the handler of each signaling event does.
C20_Dispatch ==
    \A t \in Procs :
        /\ Begins(t, "IncomingCall") =>
              /\ state'.tag = "Ringing"
              /\ state'.peer_id = procs'[t].peer
              /\ state'.username \in Usernames
        /\ (Begins(t, "AnswerReceived") \/ Begins(t, "IceCandidateReceived")) =>
              IF peer_connection = 0
              THEN procs'[t].res = Err("NoActiveCall")
              ELSE procs'[t].pc = "apply" /\ procs'[t].mypc = peer_connection
        /\ (Begins(t, "CallRejected") \/ Begins(t, "CallEnded")) =>
              /\ procs'[t].pc = "take_pc" /\ procs'[t].pend = Ended
              /\ audio_handler' = 0

\* handle_answer, when it succeeds, has set the remote description of the
\* connection that was stored when the event arrived.
C20_AnswerApplied ==
    \A t \in Procs :
        (/\ procs[t].op = "AnswerReceived" /\ procs[t].pc = "apply"
         /\ procs'[t].res = Ok(0))
        => pcs'[procs[t].mypc].remote

\* end_call for CallRejected / CallEnded, returned undisturbed, has left the
\* state Ended with the Idle timer pending.
C20_CallOverEnded ==
    \A t \in Procs :
        (/\ procs[t].op \in {"CallRejected", "CallEnded"}
         /\ procs[t].res = Ok(0) /\ procs[t].quiet)
        => /\ state = Ended /\ peer_connection = 0 /\ audio_handler = 0
           /\ timers.sleeping > 0

LoopTakes(i) ==
    /\ Len(loops') = Len(loops)
    /\ loops[i] # <<>> /\ loops'[i] = Tail(loops[i])

\* One message more is queued: the candidate, addressed to peer p.
CandidateQueued(c, p) ==
    /\ Len(outbound') = Len(outbound) + 1
    /\ SubSeq(outbound', 1, Len(outbound)) = outbound
    /\ outbound'[Len(outbound')].type = "ice_candidate"
    /\ outbound'[Len(outbound')].to = p
    /\ outbound'[Len(outbound')].body = c

\* The non-blocking send can succeed: the write task has not ended and the
\* queue is not full.
QueueAccepts == writer # "stopped" /\ Len(outbound) < OutboundCapacity

\* What the step of a call-event loop leaves alone: the call state, the
\* engine, the connections and the signaling client's connection state.
LoopLeavesAlone ==
    UNCHANGED <<engine, pcs, cb, timers, procs, signaling, client_state,
                signaling_event_tx, writer, reader, conn>>

CaptureStep == audio'.captured # audio.captured
WriteStep == audio'.written # audio.written
PlaybackStep ==
    used'.playback = used.playback + 1 /\ audio'.written = audio.written

\* The samples a ring gains in a step that only pushes.
Gained(ring, ring2) == SubSeq(ring2, Len(ring) + 1, Len(ring2))

\* A step that only pushes keeps what the ring held, and gains nothing
\* when the ring was full.
PushKeeps(ring, ring2) ==
    /\ Len(ring2) >= Len(ring)
    /\ SubSeq(ring2, 1, Len(ring)) = ring
    /\ Len(ring) = RING_BUFFER_SIZE => ring2 = ring

\* C22: neither ring buffer ever holds more than 9,600 samples; a capture
\* callback or a write_samples call that pushes onto a full ring leaves the
\* ring as it was, and in every push the ring keeps what it held; the
\* frames a playback callback asks for beyond what the ring holds are 0.0.
C22_RingsBounded ==
    /\ [](/\ Len(audio.capture_buffer) <= RING_BUFFER_SIZE
          /\ Len(audio.playback_buffer) <= RING_BUFFER_SIZE)
    /\ [][/\ CaptureStep =>
                PushKeeps(audio.capture_buffer, audio'.capture_buffer)
          /\ WriteStep =>
                PushKeeps(audio.playback_buffer, audio'.playback_buffer)
          /\ PlaybackStep =>
                \A j \in DOMAIN audio'.out :
                    j > Len(audio.playback_buffer) => audio'.out[j] = 0]_vars

\* C22 witness: the capture ring is full of the first 9,600 samples
\* captured although more were captured, and a playback callback has been
\* served 960 zero samples from the empty playback ring.
C22_Witness ==
    /\ audio.input_rate = SAMPLE_RATE
    /\ Len(audio.capture_buffer) = RING_BUFFER_SIZE
    /\ audio.capture_buffer[RING_BUFFER_SIZE] = 2 * RING_BUFFER_SIZE
    /\ audio.captured > RING_BUFFER_SIZE
    /\ audio.written = 0
    /\ Len(audio.out) = FRAME_SIZE
    /\ \A j \in DOMAIN audio.out : audio.out[j] = 0

\* ---- C23
\* A read_frame call: a capture-side step that neither captures nor mutes.
ReadStep ==
    /\ used'.capture = used.capture + 1
    /\ audio'.captured = audio.captured
    /\ audio'.is_muted = audio.is_muted

\* C23: read_frame returns a frame exactly when the capture ring holds at
\* least 960 samples; the frame is then the 960 oldest samples in order and
\* they are removed from the ring; otherwise it returns None and the ring
\* is unchanged.
C23_ReadFrame ==
    [][ReadStep =>
        IF Len(audio.capture_buffer) >= FRAME_SIZE
        THEN /\ audio'.frame = Ok(SubSeq(audio.capture_buffer, 1, FRAME_SIZE))
             /\ audio'.capture_buffer =
                    SubSeq(audio.capture_buffer, FRAME_SIZE + 1,
                           Len(audio.capture_buffer))
        ELSE /\ audio'.frame = Err("None")
             /\ audio'.capture_buffer = audio.capture_buffer]_vars

\* C23 witness: of 2,000 captured samples two frames have been read, the
\* third read returned None, and the ring holds the last 80 samples.
C23_Witness ==
    /\ audio.input_rate = SAMPLE_RATE
    /\ audio.captured = 2000
    /\ used.capture = 4
    /\ audio.frame = Err("None")
    /\ Len(audio.capture_buffer) = 2000 - 2 * FRAME_SIZE
    /\ audio.capture_buffer[1] = 2 * (2 * FRAME_SIZE + 1)

\* ---- C24
\* A block of n samples of silence.
Silence(n) == [j \in 1..n |-> 0]

\* C24: a capture callback that runs while the handler is muted sets the
\* input level from the captured block and pushes the block onto the
\* capture ring as zero samples, one for every sample the unmuted callback
\* would push, so that the ring gains only samples equal to 0.0.
C24_MutedWritesZeros ==
    [][(CaptureStep /\ audio.is_muted) =>
        /\ audio'.input_level = 1
        /\ audio'.capture_buffer =
              PushAll(audio.capture_buffer,
                      Resample(Silence(audio'.captured - audio.captured),
                               audio.input_rate))]_vars

\* ---- C25
\* init_audio has run: the handler has been made and its streams started
\* or refused.
InitAudioStep == audio.init = NoRes /\ audio'.init # NoRes

\* C25: when init_audio finds no input device and a working output device
\* the playback stream is started, and when it finds no output device and
\* a working input device the capture stream is started.
C25_StreamsIndependent ==
    [][InitAudioStep =>
        /\ (audio'.input_device = "missing" /\ audio'.output_device = "working")
              => audio'.output_stream
        /\ (audio'.output_device = "missing" /\ audio'.input_device = "working")
              => audio'.input_stream]_vars

\* ---- C26
\* A load_or_create call: a step on the key file that is not its removal.
LoadStep ==
    /\ used'.loads = used.loads + 1
    /\ ~(Exists(keystore.file) /\ ~Exists(keystore'.file))

\* The stored value decodes to exactly 32 bytes.
Decodes32(file) == file.encoding = "base64" /\ file.bytes = 32

\* C26: load_or_create, when a key file exists, generates no key and
\* leaves the file as it is; it returns the stored key when the stored
\* value decodes to exactly 32 bytes and an error otherwise.  When no key
\* file exists it generates a key and, unless saving fails, the file holds
\* that key and the key is returned.
C26_LoadOrCreate ==
    [][LoadStep =>
        IF Exists(keystore.file)
        THEN /\ keystore'.file = keystore.file
             /\ keystore'.generated = keystore.generated
             /\ keystore'.writes = keystore.writes
             /\ IF Decodes32(keystore.file)
                THEN keystore'.result = Ok(keystore.file.key)
                ELSE keystore'.result.status = "Err"
        ELSE /\ keystore'.generated = keystore.generated + 1
             /\ \/ /\ keystore'.writes = keystore.writes + 1
                   /\ Decodes32(keystore'.file)
                   /\ keystore'.result = Ok(keystore'.file.key)
                \/ /\ keystore'.file = keystore.file
                   /\ keystore'.writes = keystore.writes
                   /\ keystore'.result.status = "Err"]_vars

\* C26 witness: a stored value of 16 bytes has been refused with
\* InvalidKeyLength; nothing was generated or written and the file is as
\* it was.
C26_Witness ==
    /\ keystore.file.encoding = "base64" /\ keystore.file.bytes = 16
    /\ keystore.result = Err([kind |-> "InvalidKeyLength", len |-> 16])
    /\ keystore.generated = 0
    /\ keystore.writes = 0

\* ---- C27
\* C27: the canonical form of the canonical form of a value is the
\* canonical form of the value, and sign_message gives the same signature
\* for the value and for its canonical form.
C27_Idempotent ==
    json.given =>
        /\ json.resorted # NoRes => json.resorted = json.sorted
        /\ json.signed_sorted # NoRes => json.signed_sorted = json.signed

\* C27 witness: an object with a signature field and a nested object whose
\* keys are out of order has been brought into canonical form twice and
\* signed in both forms.
C27_Witness ==
    /\ json.given
    /\ json.x = Obj(<<<<"signature", Num(1)>>,
                      <<"b", Obj(<<<<"b", Num(0)>>, <<"a", Num(1)>>>>)>>>>)
    /\ json.sorted =
          Ok(Obj(<<<<"b", Obj(<<<<"a", Num(1)>>, <<"b", Num(0)>>>>)>>>>))
    /\ json.resorted # NoRes
    /\ json.signed_sorted # NoRes

\* ---- C28
\* C28: an object with a signature field put in, or with its signature
\* field taken out, has the canonical form of the object itself, and
\* sign_message gives the same signature for both.
C28_SignatureTransparent ==
    json.given =>
        /\ json.sorted_edited # NoRes => json.sorted_edited = json.sorted
        /\ json.signed_edited # NoRes => json.signed_edited = json.signed

\* C28 witness: a signature field has been put into an object that had
\* none, and the object with it has been signed.
C28_Witness ==
    /\ json.given
    /\ json.x = Obj(<<<<"b", Num(0)>>, <<"a", Num(1)>>>>)
    /\ json.edited =
          Ok(Obj(<<<<"b", Num(0)>>, <<"a", Num(1)>>,
                   <<"signature", Arr(<<Num(0)>>)>>>>))
    /\ json.signed_edited # NoRes

\* ---- C29
\* The form in which every object, at any depth and inside arrays too, has
\* its keys sorted and no signature key, arrays keep their order and
\* numbers are left as they are.
RECURSIVE DeepCanonical(_)
DeepCanonical(value) ==
    IF IsObj(value)
    THEN LET keys == SelectSeq(JsonKeys,
                               LAMBDA k : k \in MapKeys(value) /\ k # "signature")
         IN Obj([i \in DOMAIN keys |->
                   <<keys[i], DeepCanonical(MapGet(value, keys[i]))>>])
    ELSE IF IsArr(value)
    THEN Arr([i \in DOMAIN value.arr |-> DeepCanonical(value.arr[i])])
    ELSE value

\* C29: the canonical form of a value has the keys of every object sorted
\* and no signature key at any depth, objects inside arrays included; the
\* elements of arrays keep their order and other values are unchanged.
C29_DeepCanonical ==
    (json.given /\ json.sorted # NoRes) =>
        json.sorted.value = DeepCanonical(json.x)

\* ---- C30
\* 48 kHz clamped into the range of a configuration.
ClampedRate(c) ==
    IF c.max_sample_rate < SAMPLE_RATE THEN c.max_sample_rate
    ELSE IF c.min_sample_rate > SAMPLE_RATE THEN c.min_sample_rate
    ELSE SAMPLE_RATE

\* C30: select_best_config chooses an f32 configuration whose range
\* contains 48 kHz at 48 kHz; with none, the first f32 configuration at
\* 48 kHz clamped into its range; with no f32 configuration, the first
\* configuration at its maximum rate; it returns an error only when no
\* configuration is reported.
C30_SelectionPolicy ==
    (selection.given /\ selection.result # NoRes) =>
        LET configs == selection.configs
            exact == SelectSeq(configs, LAMBDA c :
                        /\ c.sample_format = "F32"
                        /\ c.min_sample_rate <= SAMPLE_RATE
                        /\ SAMPLE_RATE <= c.max_sample_rate)
            f32 == SelectSeq(configs, LAMBDA c : c.sample_format = "F32")
        IN IF exact # <<>>
           THEN \E i \in DOMAIN exact :
                   selection.result = Ok(WithSampleRate(exact[i], SAMPLE_RATE))
           ELSE IF f32 # <<>>
           THEN selection.result =
                   Ok(WithSampleRate(Head(f32), ClampedRate(Head(f32))))
           ELSE IF configs # <<>>
           THEN selection.result =
                   Ok(WithSampleRate(Head(configs), Head(configs).max_sample_rate))
           ELSE selection.result.status = "Err"

\* ---- C31
\* An Idle timer's sleep is over and the timer writes the call state.
TimerFires == timers'.written = timers.written + 1

\* C31: when an Idle timer fires it sets the call state to Idle only if
\* the state is still Ended; a state of Ringing, Calling, Connecting or
\* Connected, of a call begun since end_call, is left as it is.
C31_TimerChecksState ==
    [][TimerFires => state' = (IF state = Ended THEN Idle ELSE state)]_vars

\* ---- C32
\* The start_call command of task t has returned an error after its engine
\* operation had set and emitted Calling, and nothing but this command has
\* written the engine since.
StartCallFailed(t) ==
    /\ procs[t].op = "start_call" /\ procs[t].pc = "done"
    /\ procs[t].cmd.status = "Err"
    /\ procs[t].sent # <<>>
    /\ procs[t].quiet

\* C32: once a start_call command that entered Calling has reported an
\* error, end_call has run: the call state is Ended or Idle, not Calling.
C32_FailedStartEndsCall ==
    \A t \in Procs : StartCallFailed(t) => state.tag \in {"Ended", "Idle"}

\* ---- C33
\* C33: whenever the call state is Idle the engine stores no peer
\* connection and no audio handler.
C33_IdleHoldsNothing ==
    state = Idle => (peer_connection = 0 /\ audio_handler = 0)

\* ---- C34
\* The callback in progress writes the call state, and the RTC layer has
\* made no report but Closed: the callback is the Closed report of a
\* connection that end_call has taken out of the engine and closed.
StaleCallbackWrites ==
    /\ cb.pc = "write" /\ cb'.pc = "emit"
    /\ used.rtc = 0

\* An end_call has begun to take the engine's fields and has not yet
\* emitted Ended.
EndCallRunning ==
    \E t \in Procs :
        /\ procs[t].op \in EndCallOps
        /\ procs[t].pc \in {"take_pc", "set_state", "emit"}

\* C34: once end_call has set Ended, the connection-state callback of the
\* connection it removed does not change the call state: it neither ends a
\* later call nor sets Ended again after the Idle timer has fired.
C34_StaleCallbackIgnored ==
    [][(StaleCallbackWrites /\ ~EndCallRunning) => state' = state]_vars

\* ---- C35
\* A call is in progress.
InProgress(s) == s.tag \in {"Calling", "Connecting", "Connected"}

\* C35: an IncomingCall event handled while the call state is Calling,
\* Connecting or Connected leaves the call state as it is.
C35_IncomingCallKeepsCall ==
    [][\A t \in Procs :
        (Begins(t, "IncomingCall") /\ InProgress(state)) => state' = state]_vars

\* ---- C36
\* Task t, handling a CallRejected or CallEnded event, takes a step.
CallOverStep(t) ==
    /\ procs'[t].op \in {"CallRejected", "CallEnded"}
    /\ procs'[t].pc # procs[t].pc

\* C36: while the call state names a peer, the handling of a CallRejected
\* or CallEnded event from another peer changes neither the call state,
\* the stored peer connection nor the audio handler.
C36_OtherPeerCannotEnd ==
    [][\A t \in Procs :
        (/\ CallOverStep(t)
         /\ state.tag \in {"Calling", "Ringing", "Connecting", "Connected"}
         /\ state.peer_id # procs'[t].peer)
            => UNCHANGED <<state, peer_connection, audio_handler>>]_vars

\* ---- C37
\* C37: a remote candidate whose IceCandidateReceived event is handled
\* while the call state is Ringing or Connecting is not discarded with
\* NoActiveCall: it is taken to the call's peer connection.
C37_EarlyCandidateKept ==
    [][\A t \in Procs :
        (Begins(t, "IceCandidateReceived") /\ state.tag \in {"Ringing", "Connecting"})
            => ~(procs'[t].pc = "done" /\ procs'[t].res = Err("NoActiveCall"))]_vars

\* ---- C38
\* No state write is waiting for its StateChanged event and none is about
\* to be made: no task is inside set_state, the RTC callback is idle and no
\* Idle timer is sleeping or between its write and its send.
Quiescent ==
    /\ \A t \in Procs : procs[t].pc \notin {"set_state", "emit"}
    /\ cb.pc = "idle"
    /\ timers.sleeping = 0 /\ timers.written = 0

\* C38: StateChanged events leave in the order of the writes they report,
\* so once every write has been reported the last StateChanged event
\* carries the current call state.
C38_LastEventIsState ==
    (Quiescent /\ event_tx.last.tag # "None") => event_tx.last = state

\* ---- C39
\* The ice_candidate messages waiting in the outbound channel.
IceMessages == {k \in DOMAIN outbound : outbound[k].type = "ice_candidate"}

\* The heartbeat tasks that have not stopped.
RunningHeartbeats == {i \in DOMAIN heartbeat : heartbeat[i].pc = "running"}

\* C39: however often connect_and_register has run, no more ice_candidate
\* messages are enqueued than IceCandidate events were published, and at
\* most one heartbeat task is running.
C39_OneLoopOneHeartbeat ==
    /\ Cardinality(IceMessages) <= used.ice
    /\ Cardinality(RunningHeartbeats) <= 1

\* ---- C40
\* C40: while the broadcast sender exists the signaling-event loop and the
\* call-event loop go on receiving, also after the receiver has fallen
\* behind by more than the channel holds.
C40_LoopSurvivesLag ==
    bus.loop \in EventLoops => bus.status = "running"

====
